---- MODULE Spec2Model ----
(***************************************************************************)
(* Inventory bot (src/bot_final_improved_1.py; src/bot_final_complete.py   *)
(* holds the same store and user-flow code): the SQLite store of           *)
(* DatabaseManager, the per-user ConversationHandler state machine and the *)
(* handlers it dispatches to.                                              *)
(*                                                                         *)
(* Texts and callback arguments are sequences of atoms (one-character      *)
(* strings, or a whole word where the characters of the word never         *)
(* matter), so that strip() and int() are computed, not assumed.           *)
(* python-telegram-bot processes one update at a time, so every handler    *)
(* is one atomic action.                                                   *)
(***************************************************************************)
EXTENDS Integers, Sequences, FiniteSets, TLC

VARIABLES db, session, update, call

vars == <<db, session, update, call>>

(***************************** bounds ***************************************)
\* entries the log may hold before the model stops appending
MaxEntries == 1
\* highest AUTOINCREMENT id the rooms, materials and chair_colors tables may hand out
MaxRoomId == 2
MaxMaterialId == 3
MaxColorId == 2

\* number of rooms in the logs the statistics are computed on
MaxStatRooms == 6

\* length of the logs that are recorded and exported, and the seconds that pass
MaxLog == 2
MaxClock == 1

(***************************** universes ************************************)
Users == {1, 2}

\* Python None as a color id (SQLite ids start at 1)
None == 0

\* config["admin_pin"], default ADMIN_PIN = "1234"
admin_pin == <<"1", "2", "3", "4">>

\* config["conditions"] (a shortened list)
conditions == {"Neuf"}

\* seed lists of the configuration (shortened)
default_rooms == <<"LabA">>
default_materials == <<"Chaises", "Tables">>
default_chair_colors == <<"Rouge">>

(***************************** text helpers *********************************)
Digits == <<"0", "1", "2", "3", "4", "5", "6", "7", "8", "9">>

IsDigit(a) == \E i \in 1..10 : Digits[i] = a

DigitVal(a) == (CHOOSE i \in 1..10 : Digits[i] = a) - 1

IsSpace(a) == a = " "

RECURSIVE LStrip(_)
LStrip(t) ==
    IF t = <<>> THEN t
    ELSE IF IsSpace(Head(t)) THEN LStrip(Tail(t)) ELSE t

RECURSIVE RStrip(_)
RStrip(t) ==
    IF t = <<>> THEN t
    ELSE IF IsSpace(t[Len(t)]) THEN RStrip(SubSeq(t, 1, Len(t) - 1)) ELSE t

\* str.strip()
Strip(t) == RStrip(LStrip(t))

RECURSIVE DigitsValue(_, _)
DigitsValue(t, acc) ==
    IF t = <<>> THEN acc
    ELSE DigitsValue(Tail(t), acc * 10 + DigitVal(Head(t)))

\* int(text): optional surrounding blanks, optional sign, one or more digits;
\* anything else raises ValueError (ok = FALSE)
ParseInt(t) ==
    LET s == Strip(t)
        signed == s # <<>> /\ Head(s) \in {"-", "+"}
        ds == IF signed THEN Tail(s) ELSE s
        good == ds # <<>> /\ \A i \in 1..Len(ds) : IsDigit(ds[i])
        mag == IF good THEN DigitsValue(ds, 0) ELSE 0
    IN  [ok |-> good,
         val |-> IF signed /\ Head(s) = "-" THEN 0 - mag ELSE mag]

RECURSIVE StrOfInt(_)
\* str(n) for n >= 0, as atoms
StrOfInt(n) ==
    IF n < 10 THEN <<Digits[n + 1]>>
    ELSE Append(StrOfInt(n \div 10), Digits[(n % 10) + 1])

RECURSIVE Join(_)
\* the string the atoms spell
Join(t) == IF t = <<>> THEN "" ELSE Head(t) \o Join(Tail(t))

\* a callback token: the tag that starts query.data and the rest of it
Tok(tag, arg) == [tag |-> tag, arg |-> arg]

\* query.data
Data(q) == q.tag \o Join(q.arg)

\* query.data.replace(prefix, "") for tokens whose argument does not contain the prefix
Replace(q, prefix) == IF q.tag = prefix THEN Join(q.arg) ELSE Data(q)

(***************************** the store ************************************)
RECURSIVE SeedRows(_, _)
SeedRows(names, from) ==
    IF names = <<>> THEN {}
    ELSE {[id |-> from, name |-> Head(names)]} \cup SeedRows(Tail(names), from + 1)

\* init_database + seed_database on an empty file
InitDb ==
    [rooms |-> SeedRows(default_rooms, 1), roomSeq |-> Len(default_rooms),
     materials |-> SeedRows(default_materials, 1), materialSeq |-> Len(default_materials),
     colors |-> SeedRows(default_chair_colors, 1), colorSeq |-> Len(default_chair_colors),
     entries |-> <<>>,
     users |-> {},
     \* CURRENT_TIMESTAMP, in seconds since the file was created
     now |-> 0]

\* SELECT ... WHERE name = ?
RowsNamed(table, name) == {r \in table : r.name = name}

RowId(rows) == (CHOOSE r \in rows : TRUE).id

Names(table) == {r.name : r \in table}

\* a good count that would ignore the broken items
good_count_all(total, broken) == total

\* an upsert that would write no row
add_user_skip(d, user_id) == d

\* INSERT OR REPLACE INTO users
add_user(d, user_id) == [d EXCEPT !.users = @ \cup {user_id}]

\* a close that would commit what is pending
CloseUncommitted_commits(committed, pending) == pending

\* conn.close() with no commit: the pending statements are rolled back
CloseUncommitted(committed, pending) == committed

\* a commit that would lose what is pending
Commit_loses(committed, pending) == committed

\* conn.commit()
Commit(committed, pending) == pending

good_count(total, broken) == total - broken

\* an insert that would refuse a room name with no row instead of creating the row
add_inventory_entry_known(d, user_id, room_name, material_name, total, broken, condition, color_id) ==
    LET room == RowsNamed(d.rooms, room_name)
        material == RowsNamed(d.materials, material_name)
    IN  IF room = {} \/ material = {}
        THEN [db |-> d, ok |-> FALSE]
        ELSE [db |-> [d EXCEPT !.entries =
                          Append(@, [user_id |-> user_id, room_id |-> RowId(room),
                                     material_id |-> RowId(material), color_id |-> color_id,
                                     total_count |-> total, broken_count |-> broken,
                                     good_count |-> good_count(total, broken),
                                     condition |-> condition, timestamp |-> d.now])],
              ok |-> TRUE]

add_inventory_entry(d, user_id, room_name, material_name, total, broken, condition, color_id) ==
    LET room == RowsNamed(d.rooms, room_name)
        d1 == IF room = {}
              THEN [d EXCEPT !.rooms = @ \cup {[id |-> d.roomSeq + 1, name |-> room_name]},
                             !.roomSeq = @ + 1]
              ELSE d
        room_id == IF room = {} THEN d.roomSeq + 1 ELSE RowId(room)
        material == RowsNamed(d.materials, material_name)
    IN  IF material = {}
        THEN [db |-> CloseUncommitted(d, d1), ok |-> FALSE]
        ELSE LET row == [user_id |-> user_id, room_id |-> room_id,
                         material_id |-> RowId(material), color_id |-> color_id,
                         total_count |-> total, broken_count |-> broken,
                         good_count |-> good_count(total, broken), condition |-> condition,
                         timestamp |-> d.now]
                 d2 == [d1 EXCEPT !.entries = Append(@, row)]
             IN  [db |-> Commit(d, d2), ok |-> TRUE]

\* an insert into a rooms table declared without AUTOINCREMENT: the new id is one
\* above the largest id in the table, so the id of a deleted last row comes back
add_room_rowid(d, room_name) ==
    LET ids == {r.id : r \in d.rooms}
        top == IF ids = {} THEN 0 ELSE CHOOSE i \in ids : \A j \in ids : j <= i
    IN  IF RowsNamed(d.rooms, room_name) # {}
        THEN [db |-> d, ok |-> FALSE]
        ELSE [db |-> [d EXCEPT !.rooms = @ \cup {[id |-> top + 1, name |-> room_name]},
                               !.roomSeq = @ + 1],
              ok |-> TRUE]

\* an insert into rooms that no UNIQUE column would stop
add_room_blind(d, room_name) ==
    [db |-> [d EXCEPT !.rooms = @ \cup {[id |-> d.roomSeq + 1, name |-> room_name]},
                      !.roomSeq = @ + 1],
     ok |-> TRUE]

\* INSERT INTO rooms: the UNIQUE column raises IntegrityError on an existing name
add_room(d, room_name) ==
    IF RowsNamed(d.rooms, room_name) # {}
    THEN [db |-> d, ok |-> FALSE]
    ELSE [db |-> [d EXCEPT !.rooms = @ \cup {[id |-> d.roomSeq + 1, name |-> room_name]},
                           !.roomSeq = @ + 1],
          ok |-> TRUE]

\* a delete from rooms that would cascade to the entries of the room
remove_room_cascade(d, room_name) ==
    [db |-> [d EXCEPT !.rooms = @ \ RowsNamed(@, room_name),
                      !.entries = SelectSeq(@, LAMBDA e :
                                      e.room_id \notin {r.id : r \in RowsNamed(d.rooms, room_name)})],
     ok |-> RowsNamed(d.rooms, room_name) # {}]

\* DELETE FROM rooms WHERE room_name = ?; rowcount > 0
remove_room(d, room_name) ==
    [db |-> [d EXCEPT !.rooms = @ \ RowsNamed(@, room_name)],
     ok |-> RowsNamed(d.rooms, room_name) # {}]

add_material(d, material_name) ==
    IF RowsNamed(d.materials, material_name) # {}
    THEN [db |-> d, ok |-> FALSE]
    ELSE [db |-> [d EXCEPT !.materials =
                               @ \cup {[id |-> d.materialSeq + 1, name |-> material_name]},
                           !.materialSeq = @ + 1],
          ok |-> TRUE]

\* a delete from materials that would cascade to the entries of the material
remove_material_cascade(d, material_name) ==
    [db |-> [d EXCEPT !.materials = @ \ RowsNamed(@, material_name),
                      !.entries = SelectSeq(@, LAMBDA e :
                                      e.material_id \notin
                                          {m.id : m \in RowsNamed(d.materials, material_name)})],
     ok |-> RowsNamed(d.materials, material_name) # {}]

\* a delete from materials with no WHERE clause
remove_material_all(d, material_name) ==
    [db |-> [d EXCEPT !.materials = {}], ok |-> RowsNamed(d.materials, material_name) # {}]

remove_material(d, material_name) ==
    [db |-> [d EXCEPT !.materials = @ \ RowsNamed(@, material_name)],
     ok |-> RowsNamed(d.materials, material_name) # {}]

\* an insert into chair_colors that no UNIQUE column would stop
add_chair_color_blind(d, color_name) ==
    [db |-> [d EXCEPT !.colors = @ \cup {[id |-> d.colorSeq + 1, name |-> color_name]},
                      !.colorSeq = @ + 1],
     ok |-> TRUE]

add_chair_color(d, color_name) ==
    IF RowsNamed(d.colors, color_name) # {}
    THEN [db |-> d, ok |-> FALSE]
    ELSE [db |-> [d EXCEPT !.colors = @ \cup {[id |-> d.colorSeq + 1, name |-> color_name]},
                           !.colorSeq = @ + 1],
          ok |-> TRUE]

\* UPDATE chair_colors SET color_name = ? WHERE color_id = ?: the UNIQUE column raises
\* IntegrityError, which nothing catches, when another row holds the name
update_chair_color(d, color_id, color_name) ==
    LET row == {c \in d.colors : c.id = color_id}
        clash == {c \in d.colors : c.id # color_id /\ c.name = color_name}
    IN  IF row # {} /\ clash # {}
        THEN [db |-> d, ok |-> FALSE, raised |-> TRUE]
        ELSE [db |-> [d EXCEPT !.colors =
                                   (@ \ row) \cup {[id |-> c.id, name |-> color_name] : c \in row}],
              ok |-> row # {}, raised |-> FALSE]

delete_chair_color(d, color_id) ==
    [db |-> [d EXCEPT !.colors = {c \in @ : c.id # color_id}],
     ok |-> \E c \in d.colors : c.id = color_id]

\* get_room_details() returns None for a name no room row holds
RoomKnown(d, room_name) == RowsNamed(d.rooms, room_name) # {}

get_rooms(d) == Names(d.rooms)

get_materials(d) == Names(d.materials)

get_chair_colors(d) == d.colors

(***************************** statistics ***********************************)
\* LIMIT 5 of the problematic rooms query
TopRooms == 5

\* the threshold above which a broken percentage raises an alert
AlertPercent == 20

RECURSIVE SumOf(_, _)
\* SUM(column) over a sequence of rows; "or 0" makes the NULL of no row a 0
SumOf(rows, col) == IF rows = <<>> THEN 0 ELSE Head(rows)[col] + SumOf(Tail(rows), col)

\* a rounding that would cut the digits off
HalfEven_floor(num, den) == num \div den

\* the integer next to num / den, an exact half going to the even one: Python's
\* round() on a float that holds the quotient exactly
HalfEven(num, den) ==
    LET q == num \div den
        r == num % den
    IN  IF 2 * r < den THEN q
        ELSE IF 2 * r > den THEN q + 1
        ELSE IF q % 2 = 0 THEN q ELSE q + 1

\* the integer next to num / den, an exact half going up: SQLite's ROUND()
HalfUp(num, den) == (2 * num + den) \div (2 * den)

\* round((part / whole) * 100, 2), in hundredths of a percent
Percent2(part, whole) == HalfEven(10000 * part, whole)

\* ROUND(part * 100.0 / whole, 2), in hundredths of a percent
SqlPercent2(part, whole) == HalfUp(10000 * part, whole)

\* a lookup that would sum over the whole log
EntriesWhere_all(d, col, v) == d.entries

\* the rows of the log a WHERE on one column keeps
EntriesWhere(d, col, v) == SelectSeq(d.entries, LAMBDA e : e[col] = v)

\* a query over a log in which rooms whose entries sum to 0 would be kept
RoomGroups_all(d) ==
    {[room_name |-> r.name,
      broken |-> SumOf(EntriesWhere(d, "room_id", r.id), "broken_count"),
      total |-> SumOf(EntriesWhere(d, "room_id", r.id), "total_count"),
      percentage |-> 0] :
        r \in {x \in d.rooms : EntriesWhere(d, "room_id", x.id) # <<>>}}

\* FROM inventory_entries JOIN rooms GROUP BY room_name HAVING total > 0
RoomGroups(d) ==
    {[room_name |-> r.name,
      broken |-> SumOf(EntriesWhere(d, "room_id", r.id), "broken_count"),
      total |-> SumOf(EntriesWhere(d, "room_id", r.id), "total_count"),
      percentage |-> SqlPercent2(SumOf(EntriesWhere(d, "room_id", r.id), "broken_count"),
                                 SumOf(EntriesWhere(d, "room_id", r.id), "total_count"))] :
        r \in {x \in d.rooms : SumOf(EntriesWhere(d, "room_id", x.id), "total_count") > 0}}

RECURSIVE Ranked(_, _, _)
\* ORDER BY col DESC LIMIT n: every list the query may return, rows with equal
\* values coming in an order SQL leaves open
Ranked(groups, col, n) ==
    IF n = 0 \/ groups = {} THEN {<<>>}
    ELSE LET top == {g \in groups : \A h \in groups : h[col] <= g[col]}
         IN  UNION {{<<g>> \o rest : rest \in Ranked(groups \ {g}, col, n - 1)} : g \in top}

\* FROM inventory_entries JOIN materials WHERE room_id = ? GROUP BY material_name
MaterialGroups(d, room_id) ==
    LET rows(m) == SelectSeq(d.entries,
                             LAMBDA e : e.room_id = room_id /\ e.material_id = m.id)
    IN  {[material_name |-> m.name,
          total |-> SumOf(rows(m), "total_count"),
          broken |-> SumOf(rows(m), "broken_count"),
          good |-> SumOf(rows(m), "good_count")] : m \in {x \in d.materials : rows(x) # <<>>}}

\* get_room_details(): <<>> is None, <<details>> the dictionary for one of the
\* orders the materials may come in
get_room_details(d, room_name, materials) ==
    LET room == RowsNamed(d.rooms, room_name)
        rows == EntriesWhere(d, "room_id", RowId(room))
        room_total == SumOf(rows, "total_count")
        room_broken == SumOf(rows, "broken_count")
    IN  IF room = {} THEN <<>>
        ELSE <<[room_name |-> room_name,
                total_entries |-> Len(rows),
                materials |-> materials,
                room_total |-> room_total,
                room_broken |-> room_broken,
                room_good |-> SumOf(rows, "good_count"),
                room_broken_pct |-> IF room_total > 0 THEN Percent2(room_broken, room_total)
                                    ELSE 0]>>

\* FROM inventory_entries JOIN rooms JOIN materials GROUP BY room_name, material_name
StockGroups(d) ==
    LET rows(r, m) == SelectSeq(d.entries,
                                LAMBDA e : e.room_id = r.id /\ e.material_id = m.id)
    IN  {[room |-> rm[1].name, material |-> rm[2].name, entries |-> Len(rows(rm[1], rm[2])),
          total |-> SumOf(rows(rm[1], rm[2]), "total_count"),
          broken |-> SumOf(rows(rm[1], rm[2]), "broken_count")] :
            rm \in {x \in d.rooms \X d.materials : rows(x[1], x[2]) # <<>>}}

\* HAVING broken_percentage > 20 OR avg_total < ?: the percentage of a group whose
\* average total is 0 is NULL, and NULL > 20 is not true
Alerting(g, threshold) ==
    \/ g.total > 0 /\ 100 * g.broken > AlertPercent * g.total
    \/ g.total < threshold * g.entries

\* broken_percentage of g is not below that of h: NULL sorts below every number
NotBelow(g, h) ==
    IF h.total = 0 THEN TRUE
    ELSE IF g.total = 0 THEN FALSE
    ELSE g.broken * h.total >= h.broken * g.total

RECURSIVE StockRanked(_)
\* ORDER BY broken_percentage DESC: every list the query may return
StockRanked(groups) ==
    IF groups = {} THEN {<<>>}
    ELSE UNION {{<<g>> \o rest : rest \in StockRanked(groups \ {g})} :
                   g \in {x \in groups : \A h \in groups : NotBelow(x, h)}}

\* get_low_stock_items(): round(None, 1) raises TypeError for a row whose
\* percentage is NULL, else the rows come back with one decimal (here in tenths)
get_low_stock_items(rows) ==
    IF \E i \in 1..Len(rows) : rows[i].total = 0
    THEN [raised |-> TRUE, items |-> <<>>]
    ELSE [raised |-> FALSE,
          items |-> [i \in 1..Len(rows) |->
                        [room |-> rows[i].room, material |-> rows[i].material,
                         avg_total |-> HalfEven(10 * rows[i].total, rows[i].entries),
                         avg_broken |-> HalfEven(10 * rows[i].broken, rows[i].entries),
                         broken_percentage |->
                             HalfEven(1000 * rows[i].broken, rows[i].total)]]]

\* FROM inventory_entries JOIN users JOIN rooms JOIN materials: the joined rows, in
\* the order of the log
Joined(d) ==
    LET kept == SelectSeq(d.entries,
                          LAMBDA e : /\ e.user_id \in d.users
                                     /\ \E r \in d.rooms : r.id = e.room_id
                                     /\ \E m \in d.materials : m.id = e.material_id)
    IN  [i \in 1..Len(kept) |->
            [username |-> kept[i].user_id,
             room_name |-> (CHOOSE r \in d.rooms : r.id = kept[i].room_id).name,
             material_name |-> (CHOOSE m \in d.materials : m.id = kept[i].material_id).name,
             total_count |-> kept[i].total_count, broken_count |-> kept[i].broken_count,
             good_count |-> kept[i].good_count, condition |-> kept[i].condition,
             timestamp |-> kept[i].timestamp]]

RECURSIVE LatestFirst(_, _)
\* ORDER BY timestamp DESC: every order in which the rows numbered in todo may come
LatestFirst(rows, todo) ==
    IF todo = {} THEN {<<>>}
    ELSE UNION {{<<rows[i]>> \o rest : rest \in LatestFirst(rows, todo \ {i})} :
                   i \in {k \in todo : \A j \in todo : rows[j].timestamp <= rows[k].timestamp}}

\* export_to_csv(): the rows the file may hold below its header
export_to_csv(d) == LatestFirst(Joined(d), DOMAIN Joined(d))

\* get_dashboard_stats(): the dictionary, for one of the orders the rooms may come in
get_dashboard_stats(d, problematic_rooms) ==
    LET items == SumOf(d.entries, "total_count")
        broken == SumOf(d.entries, "broken_count")
        good == SumOf(d.entries, "good_count")
    IN  [total_entries |-> Len(d.entries),
         total_items |-> items,
         total_broken |-> broken,
         total_good |-> good,
         broken_percentage |-> IF items > 0 THEN Percent2(broken, items) ELSE 0,
         good_percentage |-> IF items > 0 THEN Percent2(good, items) ELSE 0,
         total_rooms |-> Cardinality(d.rooms),
         total_materials |-> Cardinality(d.materials),
         problematic_rooms |-> problematic_rooms]

(***************************** sessions *************************************)
\* context.user_data: <<>> is an absent key, <<v>> a key holding v
EmptyData ==
    [role |-> <<>>, selected_room |-> <<>>, selected_material |-> <<>>,
     color_id |-> <<>>, color_name |-> <<>>, total |-> <<>>, broken |-> <<>>,
     condition |-> <<>>, edit_color_id |-> <<>>]

Has(ud, key) == ud[key] # <<>>

Get(ud, key) == ud[key][1]

\* one user_data and one reply shared by every user
SetSession_shared(u, st, ud, reply) ==
    [v \in Users |-> [state |-> IF v = u THEN st ELSE session[v].state,
                      data |-> ud, reply |-> reply]]

\* ConversationHandler keeps one state per user and the framework one user_data per user;
\* reply is the message the handler sent to that user last
SetSession(u, st, ud, reply) ==
    [session EXCEPT ![u] = [state |-> st, data |-> ud, reply |-> reply]]

\* the update the dispatcher hands to a handler: who sent it and what it carries
NoUpdate == [user |-> 0, kind |-> "none", text |-> <<>>, data |-> ""]

\* a direct call of a DatabaseManager method: its arguments and its return value
NoCall == [op |-> "none", args |-> <<>>, ret |-> FALSE]

Init ==
    /\ db = InitDb
    /\ session = [u \in Users |-> [state |-> "END", data |-> EmptyData, reply |-> "none"]]
    /\ update = NoUpdate
    /\ call = NoCall

\* update.callback_query with query.data
Callback(u, q) == update' = [user |-> u, kind |-> "callback", text |-> <<>>, data |-> Data(q)]

\* update.message with a text that is not a command
Message(u, text) == update' = [user |-> u, kind |-> "text", text |-> text, data |-> ""]

\* update.message with a command
Command(u, name) == update' = [user |-> u, kind |-> "command", text |-> <<>>, data |-> name]

\* one handled update: the message sent, the handler's return value, its writes to
\* user_data and to the store
Handled(u, reply, st, ud, d) ==
    /\ session' = SetSession(u, st, ud, reply)
    /\ db' = d
    /\ UNCHANGED call

\* a handler that raised, or returned None, before it sent a message: the conversation
\* state is kept, the writes made to user_data so far stay
Kept(u, ud) == Handled(u, session[u].reply, session[u].state, ud, db)

(***************************** inputs ***************************************)
RoomNames == {"LabA", "LabB"}

MaterialNames == {"Chaises", "Tables"}

ColorIds == {1}

\* callback tokens a client may send in SELECT_ROLE (the last one belongs to another prompt)
RoleData == {Tok("role_user", <<>>), Tok("role_admin", <<>>), Tok("confirm_", <<"yes">>)}

\* ... in SELECT_ROOM: the button of the seeded room, current or stale, or the back button
RoomData == {Tok("room_", <<"LabA">>), Tok("back_to_start", <<>>)}

\* ... in SELECT_MATERIAL: a material button, current or stale, or one of the two
\* navigation buttons the keyboards of this state carry
MaterialData ==
    {Tok("material_", <<m>>) : m \in MaterialNames}
        \cup {Tok("back_to_rooms", <<>>), Tok("back_to_start", <<>>)}

\* ... in SELECT_COLOR
ColorData ==
    {Tok("chaircolor_", StrOfInt(i)) : i \in ColorIds}
        \cup {Tok("chaircolor_", <<"none">>), Tok("back_to_materials", <<>>),
              Tok("material_", <<"Tables">>)}

\* ... in SELECT_CONDITION
ConditionData == {Tok("condition_", <<c>>) : c \in conditions}

\* ... in CONFIRM_ENTRY
ConfirmData == {Tok("confirm_", <<"yes">>), Tok("confirm_", <<"stay">>), Tok("confirm_", <<"no">>)}

\* texts typed at the PIN prompt
PinTexts == {admin_pin, <<" ">> \o admin_pin \o <<" ">>, <<"1", "2", "3">>}

\* texts typed at the two numeric prompts
TotalTexts == {<<" ", "2", " ">>, <<"-", "1">>, <<"x">>}

BrokenTexts == {<<"1">>, <<"3">>, <<"-", "1">>, <<"x">>}

\* ... in ADMIN_MENU
AdminData ==
    {Tok(t, <<>>) : t \in {"admin_dashboard", "admin_room_details", "admin_manage_colors",
                           "admin_add_room", "admin_remove_room", "admin_add_material",
                           "admin_remove_material", "back_to_admin", "back_to_start"}}

\* the two buttons of the menu that change nothing in the store
MenuData == {Tok("admin_dashboard", <<>>), Tok("back_to_start", <<>>)}

\* the buttons of the menu that lead to the removal screens
RemovalMenuData ==
    {Tok(t, <<>>) : t \in {"admin_manage_colors", "admin_remove_room", "admin_remove_material"}}

\* the buttons of the color screens that delete a color
DelColorData ==
    {Tok("color_delete", <<>>), Tok("back_to_admin", <<>>), Tok("back_to_start", <<>>)}
        \cup {Tok("delcolor_", StrOfInt(i)) : i \in ColorIds}

\* ... in REMOVE_ROOM
DelRoomData == {Tok("delroom_", <<"LabA">>), Tok("back_to_admin", <<>>)}

\* ... in REMOVE_MATERIAL
DelMaterialData ==
    {Tok("delmat_", <<"Tables">>), Tok("back_to_admin", <<>>)}

\* ... in ROOM_DETAILS
RoomDetailData ==
    {Tok("roomdetail_", <<n>>) : n \in RoomNames}
        \cup {Tok("back_to_admin", <<>>), Tok("admin_room_details", <<>>)}

\* ... in MANAGE_COLORS and EDIT_COLOR
ColorActionData ==
    {Tok(t, <<>>) : t \in {"color_add", "color_edit", "color_delete", "back_to_colors",
                           "back_to_admin", "back_to_start"}}
        \cup {Tok("delcolor_", StrOfInt(i)) : i \in ColorIds}
        \cup {Tok("editcolor_", StrOfInt(i)) : i \in ColorIds}

\* texts typed at the admin forms
RoomTexts == {<<" ", "LabB", " ">>}

MaterialTexts == {<<"<emoji>", " ", "Tables">>}

ColorTexts == {<<"Rouge">>, <<"Bleu", " ", "#", "00F">>}

(***************************** user flow ************************************)
\* start(): clear user_data, upsert the user, show the role prompt
start(u, d) == [st |-> "SELECT_ROLE", ud |-> EmptyData, db |-> add_user(d, u), reply |-> "welcome"]

\* a room prompt that would be shown with no room to choose
show_room_selection_always(d) == [st |-> "SELECT_ROOM", reply |-> "choose_room"]

\* show_room_selection(): the conversation ends when there is no room
show_room_selection(d) ==
    IF get_rooms(d) = {} THEN [st |-> "END", reply |-> "no_rooms"]
    ELSE [st |-> "SELECT_ROOM", reply |-> "choose_room"]

\* /start is the only entry point and is not re-entrant (allow_reentry is off)
Start(u) ==
    /\ session[u].state = "END"
    /\ Command(u, "start")
    /\ LET r == start(u, db)
       IN  Handled(u, r.reply, r.st, r.ud, r.db)

\* a role prompt that would let the admin button through with no PIN
select_role_nopin(u, q) ==
    LET ud == session[u].data
        rooms == show_room_selection(db)
    IN  /\ session[u].state = "SELECT_ROLE"
        /\ Callback(u, q)
        /\ IF Data(q) = "role_user"
           THEN Handled(u, rooms.reply, rooms.st, [ud EXCEPT !.role = <<"user">>], db)
           ELSE IF Data(q) = "role_admin"
           THEN Handled(u, "enter_pin", "ADMIN_MENU", ud, db)
           ELSE Kept(u, ud)

select_role(u, q) ==
    LET ud == session[u].data
        rooms == show_room_selection(db)
    IN  /\ session[u].state = "SELECT_ROLE"
        /\ Callback(u, q)
        /\ IF Data(q) = "role_user"
           THEN Handled(u, rooms.reply, rooms.st, [ud EXCEPT !.role = <<"user">>], db)
           ELSE IF Data(q) = "role_admin"
           THEN Handled(u, "enter_pin", "ADMIN_PIN", ud, db)
           ELSE Kept(u, ud)

\* show_admin_menu()
show_admin_menu == "ADMIN_MENU"

\* a comparison that would accept any PIN
PinMatches_any(pin) == TRUE

\* pin == config_manager.config["admin_pin"]
PinMatches(pin) == pin = admin_pin

verify_admin_pin(u, text) ==
    LET ud == session[u].data
        pin == Strip(text)
    IN  /\ session[u].state = "ADMIN_PIN"
        /\ Message(u, text)
        /\ IF PinMatches(pin)
           THEN Handled(u, "access_granted", show_admin_menu,
                        [ud EXCEPT !.role = <<"admin">>], db)
           ELSE Handled(u, "pin_incorrect", "END", ud, db)

select_room(u, q) ==
    LET ud == session[u].data
    IN  /\ session[u].state = "SELECT_ROOM"
        /\ Callback(u, q)
        /\ IF Data(q) = "back_to_start"
           THEN LET r == start(u, db)
                IN  Handled(u, r.reply, r.st, r.ud, r.db)
           ELSE Handled(u, "choose_material", "SELECT_MATERIAL",
                        [ud EXCEPT !.selected_room = <<Replace(q, "room_")>>], db)

\* a test that would ask a color for every material
requiresColor_all(material_name) == TRUE

\* the literal select_material compares the material name with
requiresColor(material_name) == material_name = "Chaises"

select_material(u, q) ==
    LET ud == session[u].data
        material_name == Replace(q, "material_")
        ud1 == [ud EXCEPT !.selected_material = <<material_name>>]
        rooms == show_room_selection(db)
    IN  /\ session[u].state = "SELECT_MATERIAL"
        /\ Callback(u, q)
        /\ IF Data(q) = "back_to_rooms"
           THEN Handled(u, rooms.reply, rooms.st, ud, db)
           ELSE IF ~Has(ud1, "selected_room")
           THEN Kept(u, ud1)
           ELSE IF requiresColor(material_name) /\ get_chair_colors(db) # {}
           THEN Handled(u, "choose_color", "SELECT_COLOR", ud1, db)
           ELSE Handled(u, "enter_total", "ENTER_TOTAL", ud1, db)

\* next((c['name'] for c in colors if c['id'] == color_id), "Inconnue")
ColorName(d, color_id) ==
    LET rows == {c \in get_chair_colors(d) : c.id = color_id}
    IN  IF rows = {} THEN "Inconnue" ELSE (CHOOSE c \in rows : TRUE).name

select_chair_color(u, q) ==
    LET ud == session[u].data
        n == ParseInt(IF q.tag = "chaircolor_" THEN q.arg ELSE <<Data(q)>>)
    IN  /\ session[u].state = "SELECT_COLOR"
        /\ Callback(u, q)
        /\ IF Data(q) = "back_to_materials"
           THEN IF Has(ud, "selected_room")
                THEN Handled(u, "choose_material", "SELECT_MATERIAL", ud, db)
                ELSE Kept(u, ud)
           ELSE IF Data(q) = "chaircolor_none"
           THEN Handled(u, "enter_total", "ENTER_TOTAL",
                        [ud EXCEPT !.color_id = <<None>>,
                                   !.color_name = <<"Non specifiee">>], db)
           ELSE IF ~n.ok \/ ~Has(ud, "selected_room")
           THEN Kept(u, IF n.ok THEN [ud EXCEPT !.color_id = <<n.val>>,
                                                !.color_name = <<ColorName(db, n.val)>>]
                        ELSE ud)
           ELSE Handled(u, "enter_total", "ENTER_TOTAL",
                        [ud EXCEPT !.color_id = <<n.val>>,
                                   !.color_name = <<ColorName(db, n.val)>>], db)

\* the same test with the sign test left out
ValidTotal_any(total) == TRUE

\* the test that guards raise ValueError("Negative number")
ValidTotal(total) == ~(total < 0)

enter_total(u, text) ==
    LET ud == session[u].data
        total == ParseInt(text)
    IN  /\ session[u].state = "ENTER_TOTAL"
        /\ Message(u, text)
        /\ IF total.ok /\ ValidTotal(total.val)
           THEN Handled(u, "enter_broken", "ENTER_BROKEN",
                        [ud EXCEPT !.total = <<total.val>>], db)
           ELSE Handled(u, "invalid_number", "ENTER_TOTAL", ud, db)

\* the same test with the upper bound left out
ValidBroken_noUpper(broken, total) == ~(broken < 0)

\* the same test with the lower bound left out
ValidBroken_noLower(broken, total) == ~(broken > total)

\* the test that guards raise ValueError("Invalid broken count")
ValidBroken(broken, total) == ~(broken < 0 \/ broken > total)

enter_broken(u, text) ==
    LET ud == session[u].data
        broken == ParseInt(text)
    IN  /\ session[u].state = "ENTER_BROKEN"
        /\ Message(u, text)
        /\ IF ~Has(ud, "total")
           THEN Kept(u, ud)
           ELSE IF broken.ok /\ ValidBroken(broken.val, Get(ud, "total"))
           THEN Handled(u, "choose_condition", "SELECT_CONDITION",
                        [ud EXCEPT !.broken = <<broken.val>>], db)
           ELSE Handled(u, "invalid_number", "ENTER_BROKEN", ud, db)

select_condition(u, q) ==
    LET ud == session[u].data
        ud1 == [ud EXCEPT !.condition = <<Replace(q, "condition_")>>]
        keys == {"selected_room", "selected_material", "total", "broken"}
    IN  /\ session[u].state = "SELECT_CONDITION"
        /\ Callback(u, q)
        /\ IF \A k \in keys : Has(ud1, k)
           THEN Handled(u, "confirm", "CONFIRM_ENTRY", ud1, db)
           ELSE Kept(u, ud1)

\* the same call made with no user id
ConfirmAdd_nobody(u, ud) ==
    add_inventory_entry(db, 0, Get(ud, "selected_room"), Get(ud, "selected_material"),
                        Get(ud, "total"), Get(ud, "broken"), Get(ud, "condition"),
                        IF Has(ud, "color_id") THEN Get(ud, "color_id") ELSE None)

\* the same call made in the name of user 2, whoever confirms
ConfirmAdd_other(u, ud) ==
    add_inventory_entry(db, 2, Get(ud, "selected_room"), Get(ud, "selected_material"),
                        Get(ud, "total"), Get(ud, "broken"), Get(ud, "condition"),
                        IF Has(ud, "color_id") THEN Get(ud, "color_id") ELSE None)

\* the call both confirm_yes and confirm_stay make
ConfirmAdd(u, ud) ==
    add_inventory_entry(db, u, Get(ud, "selected_room"), Get(ud, "selected_material"),
                        Get(ud, "total"), Get(ud, "broken"), Get(ud, "condition"),
                        IF Has(ud, "color_id") THEN Get(ud, "color_id") ELSE None)

\* the model stops where the log or an id sequence would pass its bound
WithinBounds(d) ==
    /\ Len(d.entries) <= MaxEntries
    /\ d.roomSeq <= MaxRoomId
    /\ d.materialSeq <= MaxMaterialId
    /\ d.colorSeq <= MaxColorId

\* a stay that would keep the color of the item just saved
StayData_color(ud) ==
    [EmptyData EXCEPT !.selected_room = ud.selected_room, !.color_id = ud.color_id]

\* a stay that would forget the room as well
StayData_empty(ud) == EmptyData

\* a stay that would keep the whole draft
StayData_keeps(ud) == ud

\* confirm_stay on success: user_data is cleared and the room put back
StayData(ud) == [EmptyData EXCEPT !.selected_room = ud.selected_room]

\* a failed stay that would leave the user at the confirmation with the draft
StayFailed_retry(u, r) == Handled(u, "error", "CONFIRM_ENTRY", session[u].data, r.db)

\* confirm_stay on failure
StayFailed(u, r) == Handled(u, "error", "END", EmptyData, r.db)

\* a cancel that would leave the draft in user_data
ConfirmNo_keeps(u) == Handled(u, "cancelled", "END", session[u].data, db)

\* the else branch of confirm_entry (confirm_no)
ConfirmNo(u) == Handled(u, "cancelled", "END", EmptyData, db)

confirm_entry(u, q) ==
    LET ud == session[u].data
        keys == {"selected_room", "selected_material", "total", "broken", "condition"}
    IN  /\ session[u].state = "CONFIRM_ENTRY"
        /\ Callback(u, q)
        /\ IF Data(q) \in {"confirm_yes", "confirm_stay"} /\ ~(\A k \in keys : Has(ud, k))
           THEN Kept(u, ud)
           ELSE IF Data(q) = "confirm_yes"
           THEN LET r == ConfirmAdd(u, ud)
                IN  /\ WithinBounds(r.db)
                    /\ Handled(u, IF r.ok THEN "saved" ELSE "error", "END", EmptyData, r.db)
           ELSE IF Data(q) = "confirm_stay"
           THEN LET r == ConfirmAdd(u, ud)
                IN  /\ WithinBounds(r.db)
                    /\ IF r.ok
                       THEN Handled(u, "saved_add_another", "SELECT_MATERIAL",
                                    StayData(ud), r.db)
                       ELSE StayFailed(u, r)
           ELSE ConfirmNo(u)

\* a /cancel that would end the conversation and leave user_data as it is
cancel_keeps(u) ==
    /\ session[u].state # "END"
    /\ Command(u, "cancel")
    /\ Handled(u, "cancelled", "END", session[u].data, db)

\* the /cancel fallback of the conversation
cancel(u) ==
    /\ session[u].state # "END"
    /\ Command(u, "cancel")
    /\ Handled(u, "cancelled", "END", EmptyData, db)

(***************************** admin flow ***********************************)
RECURSIVE BeforeHash(_)
\* text.split('#')[0]
BeforeHash(t) ==
    IF t = <<>> \/ Head(t) = "#" THEN <<>>
    ELSE <<Head(t)>> \o BeforeHash(Tail(t))

\* the atom that stands for a character of the emoji ranges of add_material_handler
IsEmoji(a) == a = "<emoji>"

\* text.replace(emoji, "").strip() for a text with at most one run of emoji
WithoutEmoji(t) == Strip(SelectSeq(t, LAMBDA a : ~IsEmoji(a)))

\* manage_colors_menu()
manage_colors_menu == "MANAGE_COLORS"

handle_admin_action(u, q) ==
    LET ud == session[u].data
        to(st) == Handled(u, "prompt", st, ud, db)
    IN  /\ session[u].state = "ADMIN_MENU"
        /\ Callback(u, q)
        /\ CASE Data(q) = "admin_room_details" -> to("ROOM_DETAILS")
             [] Data(q) = "admin_manage_colors" -> to(manage_colors_menu)
             [] Data(q) = "admin_add_room" -> to("ADD_ROOM")
             [] Data(q) = "admin_remove_room" -> to("REMOVE_ROOM")
             [] Data(q) = "admin_add_material" -> to("ADD_MATERIAL")
             [] Data(q) = "admin_remove_material" -> to("REMOVE_MATERIAL")
             [] Data(q) = "back_to_start" ->
                    LET r == start(u, db)
                    IN  Handled(u, r.reply, r.st, r.ud, r.db)
             [] Data(q) = "back_to_admin" -> to(show_admin_menu)
             [] Data(q) = "admin_dashboard" -> Handled(u, "dashboard", "ADMIN_MENU", ud, db)
             [] OTHER -> Kept(u, ud)

add_room_handler(u, text) ==
    LET r == add_room(db, Join(Strip(text)))
    IN  /\ session[u].state = "ADD_ROOM"
        /\ Message(u, text)
        /\ WithinBounds(r.db)
        /\ Handled(u, IF r.ok THEN "added" ELSE "exists",
                   show_admin_menu, session[u].data, r.db)

remove_room_handler(u, q) ==
    LET r == remove_room(db, Replace(q, "delroom_"))
    IN  /\ session[u].state = "REMOVE_ROOM"
        /\ Callback(u, q)
        /\ IF Data(q) = "back_to_admin"
           THEN Handled(u, "prompt", show_admin_menu, session[u].data, db)
           ELSE Handled(u, IF r.ok THEN "removed" ELSE "error",
                        show_admin_menu, session[u].data, r.db)

add_material_handler(u, text) ==
    LET t == Strip(text)
        material_name == IF \E i \in 1..Len(t) : IsEmoji(t[i])
                         THEN Join(WithoutEmoji(t)) ELSE Join(t)
        r == add_material(db, material_name)
    IN  /\ session[u].state = "ADD_MATERIAL"
        /\ Message(u, text)
        /\ WithinBounds(r.db)
        /\ Handled(u, IF r.ok THEN "added" ELSE "exists",
                   show_admin_menu, session[u].data, r.db)

remove_material_handler(u, q) ==
    LET r == remove_material(db, Replace(q, "delmat_"))
    IN  /\ session[u].state = "REMOVE_MATERIAL"
        /\ Callback(u, q)
        /\ IF Data(q) = "back_to_admin"
           THEN Handled(u, "prompt", show_admin_menu, session[u].data, db)
           ELSE Handled(u, IF r.ok THEN "removed" ELSE "error",
                        show_admin_menu, session[u].data, r.db)

show_room_details(u, q) ==
    /\ session[u].state = "ROOM_DETAILS"
    /\ Callback(u, q)
    /\ IF RoomKnown(db, Replace(q, "roomdetail_"))
       THEN Handled(u, "details", "ROOM_DETAILS", session[u].data, db)
       ELSE Handled(u, "not_found", "ADMIN_MENU", session[u].data, db)

\* the callback handler of MANAGE_COLORS and of EDIT_COLOR
handle_color_action(u, q) ==
    LET ud == session[u].data
        n == ParseInt(q.arg)
        to(st) == Handled(u, "prompt", st, ud, db)
    IN  /\ session[u].state \in {"MANAGE_COLORS", "EDIT_COLOR"}
        /\ Callback(u, q)
        /\ CASE Data(q) = "back_to_start" ->
                    LET r == start(u, db)
                    IN  Handled(u, r.reply, r.st, r.ud, r.db)
             [] Data(q) = "color_add" -> to("ADD_COLOR")
             [] Data(q) = "color_edit" ->
                    IF get_chair_colors(db) = {}
                    THEN Handled(u, "no_color", manage_colors_menu, ud, db)
                    ELSE to("EDIT_COLOR")
             [] Data(q) = "color_delete" ->
                    IF get_chair_colors(db) = {}
                    THEN Handled(u, "no_color", manage_colors_menu, ud, db)
                    ELSE to("MANAGE_COLORS")
             [] Data(q) = "back_to_colors" -> to(manage_colors_menu)
             [] q.tag = "delcolor_" ->
                    IF ~n.ok THEN Kept(u, ud)
                    ELSE LET r == delete_chair_color(db, n.val)
                         IN  Handled(u, IF r.ok THEN "removed" ELSE "error",
                                     manage_colors_menu, ud, r.db)
             [] q.tag = "editcolor_" ->
                    IF ~n.ok THEN Kept(u, ud)
                    ELSE IF \E c \in get_chair_colors(db) : c.id = n.val
                    THEN Handled(u, "prompt", "EDIT_COLOR",
                                 [ud EXCEPT !.edit_color_id = <<n.val>>], db)
                    ELSE Handled(u, session[u].reply, "MANAGE_COLORS",
                                 [ud EXCEPT !.edit_color_id = <<n.val>>], db)
             [] OTHER -> Handled(u, session[u].reply, "MANAGE_COLORS", ud, db)

add_color_handler(u, text) ==
    LET r == add_chair_color(db, Join(Strip(BeforeHash(Strip(text)))))
    IN  /\ session[u].state = "ADD_COLOR"
        /\ Message(u, text)
        /\ WithinBounds(r.db)
        /\ Handled(u, IF r.ok THEN "added" ELSE "exists",
                   show_admin_menu, session[u].data, r.db)

edit_color_handler(u, text) ==
    LET ud == session[u].data
        done == [ud EXCEPT !.edit_color_id = <<>>]
    IN  /\ session[u].state = "EDIT_COLOR"
        /\ Message(u, text)
        /\ IF ~Has(ud, "edit_color_id")
           THEN Handled(u, "error", show_admin_menu, ud, db)
           ELSE LET r == update_chair_color(db, Get(ud, "edit_color_id"),
                                            Join(Strip(BeforeHash(Strip(text)))))
                IN  IF r.raised
                    THEN Kept(u, ud)
                    ELSE Handled(u, IF r.ok THEN "updated" ELSE "error",
                                 show_admin_menu, done, r.db)

(***************************** specification ********************************)
\* the updates of the entry flow, the PIN prompt included
EntryFlow(u) ==
    \/ Start(u)
    \/ \E q \in RoleData : select_role(u, q)
    \/ \E text \in PinTexts : verify_admin_pin(u, text)
    \/ \E q \in RoomData : select_room(u, q)
    \/ \E q \in MaterialData : select_material(u, q)
    \/ \E q \in ColorData : select_chair_color(u, q)
    \/ \E text \in TotalTexts : enter_total(u, text)
    \/ \E text \in BrokenTexts : enter_broken(u, text)
    \/ \E q \in ConditionData : select_condition(u, q)
    \/ \E q \in ConfirmData : confirm_entry(u, q)
    \/ cancel(u)

\* the updates of the admin screens
AdminFlow(u) ==
    \/ \E q \in AdminData : handle_admin_action(u, q)
    \/ \E text \in RoomTexts : add_room_handler(u, text)
    \/ \E q \in DelRoomData : remove_room_handler(u, q)
    \/ \E text \in MaterialTexts : add_material_handler(u, text)
    \/ \E q \in DelMaterialData : remove_material_handler(u, q)
    \/ \E q \in RoomDetailData : show_room_details(u, q)
    \/ \E q \in ColorActionData : handle_color_action(u, q)
    \/ \E text \in ColorTexts : add_color_handler(u, text)
    \/ \E text \in ColorTexts : edit_color_handler(u, text)

\* every user records entries; an authenticated one only looks at the menu
Next == \E u \in Users : EntryFlow(u) \/ \E q \in MenuData : handle_admin_action(u, q)

Spec == Init /\ [][Next]_vars

\* one user alone, with every screen of the bot
NextSolo == EntryFlow(1) \/ AdminFlow(1)

SpecSolo == Init /\ [][NextSolo]_vars

\* the admin screens that take reference data away
Removals(u) ==
    \/ \E q \in RemovalMenuData : handle_admin_action(u, q)
    \/ \E q \in DelRoomData : remove_room_handler(u, q)
    \/ \E q \in DelMaterialData : remove_material_handler(u, q)
    \/ \E q \in DelColorData : handle_color_action(u, q)

\* user 1 records entries while user 2, an admin, removes rooms, materials and colors
NextShared ==
    \/ EntryFlow(1)
    \/ Start(2)
    \/ select_role(2, Tok("role_admin", <<>>))
    \/ verify_admin_pin(2, admin_pin)
    \/ Removals(2)

SpecShared == Init /\ [][NextShared]_vars

\* a button of an earlier prompt that is still on the user's screen
OldPromptData == {Tok("room_", <<"LabA">>)}

\* one user records entries and may press an old button at the condition prompt
NextStale ==
    \/ EntryFlow(1)
    \/ \E q \in OldPromptData : select_condition(1, q)

SpecStale == Init /\ [][NextStale]_vars

(***************************** the store on its own *************************)
\* arguments a caller may pass to the store
CallUsers == {1}

CallMaterials == {"Chaises", "Ghost"}

CallCounts == {0, 1}

\* one direct call: the store it leaves and what it returned
Called(op, args, r) ==
    /\ WithinBounds(r.db)
    /\ db' = r.db
    /\ call' = [op |-> op, args |-> args, ret |-> r.ok]
    /\ UNCHANGED <<session, update>>

CallAddEntry ==
    \E user_id \in CallUsers, room_name \in RoomNames, material_name \in CallMaterials,
       total \in {1}, broken \in CallCounts, condition \in conditions,
       color_id \in {None} :
        Called("add_inventory_entry", <<room_name, material_name>>,
               add_inventory_entry(db, user_id, room_name, material_name,
                                   total, broken, condition, color_id))

CallAddRoom == \E room_name \in RoomNames : Called("add_room", <<room_name>>, add_room(db, room_name))

CallRemoveRoom ==
    \E room_name \in RoomNames : Called("remove_room", <<room_name>>, remove_room(db, room_name))

CallAddMaterial ==
    \E material_name \in {"Ghost"} :
        Called("add_material", <<material_name>>, add_material(db, material_name))

CallRemoveMaterial ==
    \E material_name \in {"Ghost"} :
        Called("remove_material", <<material_name>>, remove_material(db, material_name))

CallColorNames == {"Rouge", "Bleu"}

CallColorIds == {1, 2}

CallAddColor ==
    \E color_name \in CallColorNames :
        Called("add_chair_color", <<color_name>>, add_chair_color(db, color_name))

CallDeleteColor ==
    \E color_id \in CallColorIds :
        Called("delete_chair_color", <<color_id>>, delete_chair_color(db, color_id))

NextStore ==
    \/ CallAddEntry
    \/ CallAddRoom
    \/ CallRemoveRoom
    \/ CallAddMaterial
    \/ CallRemoveMaterial
    \/ CallAddColor
    \/ CallDeleteColor

SpecStore == Init /\ [][NextStore]_vars

(***************************** recording and exporting **********************)
\* one call made while the log has room: the store it leaves and what it returned
CalledUpTo(limit, op, args, r) ==
    /\ Len(r.db.entries) <= limit
    /\ r.db.roomSeq <= MaxRoomId
    /\ db' = r.db
    /\ call' = [op |-> op, args |-> args, ret |-> r.ok]
    /\ UNCHANGED <<session, update>>

\* one call that reads the store: what it returned
Returned(op, args, ret) ==
    /\ call' = [op |-> op, args |-> args, ret |-> ret]
    /\ UNCHANGED <<db, session, update>>

\* a second passes
Tick ==
    /\ db.now < MaxClock
    /\ db' = [db EXCEPT !.now = @ + 1]
    /\ UNCHANGED <<session, update, call>>

\* start() upserts the user before anything else
CallAddUser ==
    \E user_id \in CallUsers :
        CalledUpTo(MaxLog, "add_user", <<user_id>>, [db |-> add_user(db, user_id), ok |-> TRUE])

\* confirm_entry's call, made for a user that start() has upserted
CallRecord ==
    \E user_id \in CallUsers \cap db.users, room_name \in RoomNames,
       material_name \in {"Tables", "Ghost"}, total \in {1}, broken \in CallCounts,
       condition \in conditions :
        CalledUpTo(MaxLog, "add_inventory_entry",
                   <<room_name, material_name, total, broken, condition>>,
                   add_inventory_entry(db, user_id, room_name, material_name,
                                       total, broken, condition, None))

CallDropRoom ==
    \E room_name \in {"LabA"} :
        CalledUpTo(MaxLog, "remove_room", <<room_name>>, remove_room(db, room_name))

CallDropMaterial ==
    \E material_name \in {"Tables"} :
        CalledUpTo(MaxLog, "remove_material", <<material_name>>,
                   remove_material(db, material_name))

CallRestoreRoom ==
    \E room_name \in {"LabA"} :
        CalledUpTo(MaxLog, "add_room", <<room_name>>, add_room(db, room_name))

CallExport == \E rows \in export_to_csv(db) : Returned("export_to_csv", <<>>, rows)

NextExport ==
    \/ Tick
    \/ CallAddUser
    \/ CallRecord
    \/ CallDropRoom
    \/ CallDropMaterial
    \/ CallRestoreRoom
    \/ CallExport

SpecExport == Init /\ [][NextExport]_vars

(***************************** the statistics on their own ******************)
\* the rooms of the logs the statistics are computed on, by room id
StatRoomNames == <<"A", "B", "C", "D", "E", "F", "G", "H">>

\* what a room holds in such a log: nothing, a material of which there is none,
\* a few intact items, or counts whose percentages need rounding, are close to one
\* another, or add up over two materials
Loads ==
    {<<>>,
     <<[material_id |-> 2, total |-> 0, broken |-> 0]>>,
     <<[material_id |-> 2, total |-> 5, broken |-> 0]>>,
     <<[material_id |-> 2, total |-> 3, broken |-> 2]>>,
     <<[material_id |-> 1, total |-> 101, broken |-> 50]>>,
     <<[material_id |-> 2, total |-> 80, broken |-> 40],
       [material_id |-> 1, total |-> 120, broken |-> 59]>>}

\* the loads of a room after the second: no percentage comes twice among them
PlainLoads(room_id) ==
    <<<<>>,
      <<[material_id |-> 2, total |-> 0, broken |-> 0]>>,
      <<[material_id |-> 2, total |-> 10, broken |-> room_id - 2]>>>>

LoadChoices ==
    {[i \in 1..MaxStatRooms |-> IF i > 2 THEN PlainLoads(i)[p[i]] ELSE h[i]] :
        h \in [1..2 -> Loads], p \in [3..MaxStatRooms -> 1..3]}

\* the entries user 1 recorded for room room_id
LoadRows(load, room_id) ==
    [i \in 1..Len(load) |->
        [user_id |-> 1, room_id |-> room_id, material_id |-> load[i].material_id,
         color_id |-> None, total_count |-> load[i].total, broken_count |-> load[i].broken,
         good_count |-> good_count(load[i].total, load[i].broken), condition |-> "Neuf",
         timestamp |-> 0]]

RECURSIVE LogOf(_, _)
\* the log of the rooms up to room n
LogOf(f, n) == IF n = 0 THEN <<>> ELSE LogOf(f, n - 1) \o LoadRows(f[n], n)

\* a store after the entries of f were recorded, room 1 or the material Tables
\* possibly removed since
StatDb(f, room_gone, material_gone) ==
    [InitDb EXCEPT
        !.rooms = {[id |-> i, name |-> StatRoomNames[i]] :
                      i \in (1..MaxStatRooms) \ (IF room_gone THEN {1} ELSE {})},
        !.roomSeq = MaxStatRooms,
        !.materials = IF material_gone THEN {m \in @ : m.name # "Tables"} ELSE @,
        !.entries = LogOf(f, MaxStatRooms),
        !.users = {1}]

InitStats ==
    /\ db \in {StatDb(f, room_gone, material_gone) :
                  f \in LoadChoices, room_gone \in BOOLEAN, material_gone \in BOOLEAN}
    /\ session = [u \in Users |-> [state |-> "END", data |-> EmptyData, reply |-> "none"]]
    /\ update = NoUpdate
    /\ call = NoCall

CallDashboard ==
    \E problematic_rooms \in Ranked(RoomGroups(db), "percentage", TopRooms) :
        Returned("get_dashboard_stats", <<>>, get_dashboard_stats(db, problematic_rooms))

\* names and thresholds the statistics are asked for
DetailRooms == {"A", "B", "Nowhere"}

Thresholds == {0, 10}

CallRoomDetails ==
    \E room_name \in DetailRooms :
        \E materials \in
               LET groups == MaterialGroups(db, RowId(RowsNamed(db.rooms, room_name)))
               IN  IF RowsNamed(db.rooms, room_name) = {} THEN {<<>>}
                   ELSE Ranked(groups, "total", Cardinality(groups)) :
            Returned("get_room_details", <<room_name>>,
                     get_room_details(db, room_name, materials))

CallLowStock ==
    \E threshold \in Thresholds :
        \E rows \in StockRanked({g \in StockGroups(db) : Alerting(g, threshold)}) :
            Returned("get_low_stock_items", <<threshold>>, get_low_stock_items(rows))

NextStats ==
    \/ CallDashboard
    \/ CallRoomDetails
    \/ CallLowStock

SpecStats == InitStats /\ [][NextStats]_vars

(***************************** properties *********************************)
\* the admin states of the conversation
AdminStates ==
    {"ADMIN_MENU", "ADD_ROOM", "REMOVE_ROOM", "ADD_MATERIAL", "REMOVE_MATERIAL",
     "MANAGE_COLORS", "ADD_COLOR", "EDIT_COLOR", "ROOM_DETAILS"}

\* the step handles a text message of user u
TextFrom(u) == update'.user = u /\ update'.kind = "text"

\* the step handles a callback query of user u
CallbackFrom(u) == update'.user = u /\ update'.kind = "callback"

\* C1: in every reachable state, whatever the interleaving of recording and admin
\* sessions, every persisted entry has total >= 0, 0 <= broken <= total and
\* good = total - broken.
C1_EntryCounts ==
    \A i \in 1..Len(db.entries) :
        LET e == db.entries[i]
        IN  /\ e.total_count >= 0
            /\ 0 <= e.broken_count
            /\ e.broken_count <= e.total_count
            /\ e.good_count = e.total_count - e.broken_count

\* an entry with broken items was recorded while the other user was on an admin screen
C1_Reached ==
    /\ \E i \in 1..Len(db.entries) :
           db.entries[i].total_count = 2 /\ db.entries[i].broken_count = 1
    /\ session[2].state \in AdminStates

\* C2: add_inventory_entry called with a material name that no material row holds
\* returns False and leaves the store as it was: no entry row, no room row, also when
\* the room name was unseen (the room insert is not committed).
C2_UnknownMaterial ==
    [][(call'.op = "add_inventory_entry" /\ call'.args[2] \notin get_materials(db))
           => (call'.ret = FALSE /\ db' = db)]_vars

\* the call failed on an unknown material with a room name the store still does not hold
C2_Reached ==
    /\ call.op = "add_inventory_entry"
    /\ call.ret = FALSE
    /\ call.args[2] \notin get_materials(db)
    /\ call.args[1] \notin get_rooms(db)

\* C3: add_inventory_entry called with the name of an existing material and a room
\* name no room row holds returns True, adds exactly one room row with that name and
\* exactly one entry row that references it, and leaves every other room, material,
\* color and entry as it was.
C3_NewRoom ==
    [][(/\ call'.op = "add_inventory_entry"
        /\ call'.args[2] \in get_materials(db)
        /\ call'.args[1] \notin get_rooms(db))
           => /\ call'.ret = TRUE
              /\ \E r \in db'.rooms :
                     /\ r.name = call'.args[1]
                     /\ \A x \in db.rooms : x.id # r.id
                     /\ db'.rooms = db.rooms \cup {r}
                     /\ Len(db'.entries) = Len(db.entries) + 1
                     /\ db'.entries[Len(db'.entries)].room_id = r.id
              /\ SubSeq(db'.entries, 1, Len(db.entries)) = db.entries
              /\ db'.materials = db.materials
              /\ db'.colors = db.colors
              /\ db'.users = db.users]_vars

\* the call succeeded and the newest entry references the newest room, which bears the
\* name passed and is none of the seeded rooms
C3_Reached ==
    /\ call.op = "add_inventory_entry"
    /\ call.ret = TRUE
    /\ db.entries # <<>>
    /\ db.entries[Len(db.entries)].room_id = db.roomSeq
    /\ db.roomSeq > Len(default_rooms)
    /\ [id |-> db.roomSeq, name |-> call.args[1]] \in db.rooms

\* C4: an update handled for one user leaves the session of every other user (its
\* state, every key of its user_data, its last reply) as it was, whatever the
\* interleaving of the two users' updates.
C4_SessionsIndependent ==
    [][\A b \in Users : update'.user # b => session'[b] = session[b]]_vars

\* both users are in the middle of an entry, with different drafts
C4_Reached ==
    /\ session[1].state = "ENTER_BROKEN"
    /\ session[2].state = "CONFIRM_ENTRY"
    /\ session[1].data.selected_material # session[2].data.selected_material
    /\ update.user = 1

\* C5 as stated: at the PIN prompt a text leads to the admin menu if and only if it
\* equals the configured PIN, and to the end of the conversation otherwise.
C5_ExactPin ==
    [][\A u \in Users :
           (session[u].state = "ADMIN_PIN" /\ TextFrom(u))
               => session'[u].state =
                      (IF update'.text = admin_pin THEN "ADMIN_MENU" ELSE "END")]_vars

\* C5: at the PIN prompt a text leads to the admin menu if and only if it equals the
\* configured PIN once the blanks around it are stripped; every other text ends the
\* conversation, so no second attempt is possible in it.
C5_StrippedPin ==
    [][\A u \in Users :
           (session[u].state = "ADMIN_PIN" /\ TextFrom(u))
               => session'[u].state =
                      (IF Strip(update'.text) = admin_pin THEN "ADMIN_MENU" ELSE "END")]_vars

\* a text that is not the PIN itself, only the PIN between blanks, opened the admin menu
C5_Reached ==
    \E u \in Users :
        /\ update.user = u
        /\ update.kind = "text"
        /\ update.text # admin_pin
        /\ session[u].state = "ADMIN_MENU"
        /\ session[u].reply = "access_granted"

\* C6 as stated: a session enters an admin state only from the PIN prompt and only
\* by a text equal to the configured PIN.
C6_ExactPinOnly ==
    [][\A u \in Users :
           (session'[u].state \in AdminStates /\ session[u].state \notin AdminStates)
               => /\ session[u].state = "ADMIN_PIN"
                  /\ TextFrom(u)
                  /\ update'.text = admin_pin]_vars

\* C6: a session enters an admin state only from the PIN prompt and only by a text
\* that equals the configured PIN once the blanks around it are stripped; no callback,
\* stale ones included, no command and no other text takes a session from outside the
\* admin states into them.  (start runs only outside the admin states, so a session
\* in an admin state has passed the PIN prompt since its last start.)
C6_StrippedPinOnly ==
    [][\A u \in Users :
           (session'[u].state \in AdminStates /\ session[u].state \notin AdminStates)
               => /\ session[u].state = "ADMIN_PIN"
                  /\ TextFrom(u)
                  /\ Strip(update'.text) = admin_pin]_vars

\* a session is on an admin screen behind the menu, in the admin role
C6_Reached ==
    \E u \in Users :
        /\ session[u].state \in AdminStates \ {"ADMIN_MENU"}
        /\ session[u].data.role = <<"admin">>

\* C7: at the total prompt a text that int() refuses, or a negative number, leaves the
\* state, every key of user_data and the store as they were; a number >= 0 becomes
\* user_data['total'] and the state becomes ENTER_BROKEN.
C7_EnterTotal ==
    [][\A u \in Users :
           (session[u].state = "ENTER_TOTAL" /\ TextFrom(u))
               => LET n == ParseInt(update'.text)
                  IN  /\ db' = db
                      /\ IF n.ok /\ n.val >= 0
                         THEN /\ session'[u].state = "ENTER_BROKEN"
                              /\ session'[u].data = [session[u].data EXCEPT !.total = <<n.val>>]
                         ELSE /\ session'[u].state = "ENTER_TOTAL"
                              /\ session'[u].data = session[u].data]_vars

\* a negative total was refused: the user is still at the prompt, the draft still
\* holds the room and the material and no total
C7_Reached ==
    \E u \in Users :
        /\ update = [user |-> u, kind |-> "text", text |-> <<"-", "1">>, data |-> ""]
        /\ session[u].state = "ENTER_TOTAL"
        /\ session[u].reply = "invalid_number"
        /\ Has(session[u].data, "selected_material")
        /\ ~Has(session[u].data, "total")

\* C8: at the broken prompt a text is accepted if and only if int() reads it as a
\* number b with 0 <= b <= user_data['total']; accepted, b becomes user_data['broken']
\* and the state SELECT_CONDITION; refused, the state, the total, every other key of
\* user_data and the store stay as they were.
C8_EnterBroken ==
    [][\A u \in Users :
           (session[u].state = "ENTER_BROKEN" /\ TextFrom(u))
               => LET b == ParseInt(update'.text)
                      total == Get(session[u].data, "total")
                  IN  /\ db' = db
                      /\ IF b.ok /\ 0 <= b.val /\ b.val <= total
                         THEN /\ session'[u].state = "SELECT_CONDITION"
                              /\ session'[u].data = [session[u].data EXCEPT !.broken = <<b.val>>]
                         ELSE /\ session'[u].state = "ENTER_BROKEN"
                              /\ session'[u].data = session[u].data]_vars

\* a broken count above the total was refused: the user is still at the prompt and
\* the total is the one entered
C8_Reached ==
    \E u \in Users :
        /\ update = [user |-> u, kind |-> "text", text |-> <<"3">>, data |-> ""]
        /\ session[u].state = "ENTER_BROKEN"
        /\ session[u].reply = "invalid_number"
        /\ session[u].data.total = <<2>>
        /\ ~Has(session[u].data, "broken")

\* C9: at the material prompt the button of a material leads to SELECT_COLOR if and
\* only if the material is the one that takes a color (Chaises) and the store holds
\* at least one chair color at that moment; in every other case it leads to
\* ENTER_TOTAL and user_data holds no color.
C9_ColorStep ==
    [][\A u \in Users : \A m \in MaterialNames :
           (/\ session[u].state = "SELECT_MATERIAL"
            /\ CallbackFrom(u)
            /\ update'.data = "material_" \o m)
               => IF m = "Chaises" /\ db.colors # {}
                  THEN session'[u].state = "SELECT_COLOR"
                  ELSE /\ session'[u].state = "ENTER_TOTAL"
                       /\ ~Has(session'[u].data, "color_id")
                       /\ ~Has(session'[u].data, "color_name")]_vars

\* chairs were chosen while the store held no color: the total is asked at once
C9_Reached ==
    \E u \in Users :
        /\ update = [user |-> u, kind |-> "callback", text |-> <<>>, data |-> "material_Chaises"]
        /\ session[u].state = "ENTER_TOTAL"
        /\ db.colors = {}

\* the entry row confirm builds from a draft, for the room row the name resolves to
DraftRow(u, ud, d) ==
    [user_id |-> u,
     room_id |-> RowId(RowsNamed(d.rooms, Get(ud, "selected_room"))),
     material_id |-> RowId(RowsNamed(d.materials, Get(ud, "selected_material"))),
     color_id |-> IF Has(ud, "color_id") THEN Get(ud, "color_id") ELSE None,
     total_count |-> Get(ud, "total"), broken_count |-> Get(ud, "broken"),
     good_count |-> Get(ud, "total") - Get(ud, "broken"),
     condition |-> Get(ud, "condition"),
     timestamp |-> d.now]

\* C10: at the confirmation prompt, confirm_yes makes one add_inventory_entry call
\* with the room, material, total, broken, condition and color of the draft: when it
\* reports success the log is the old log plus exactly one entry with those values and
\* the id of the confirming user, when it reports failure the store is as it was, and
\* in both cases the conversation ends.
C10_Confirm ==
    [][\A u \in Users :
           (/\ session[u].state = "CONFIRM_ENTRY"
            /\ CallbackFrom(u)
            /\ update'.data = "confirm_yes")
               => /\ session'[u].state = "END"
                  /\ session'[u].reply \in {"saved", "error"}
                  /\ session'[u].reply = "saved"
                         => db'.entries = Append(db.entries, DraftRow(u, session[u].data, db'))
                  /\ session'[u].reply = "error" => db' = db]_vars

\* a confirmation was saved: the conversation ended and the log holds the entry of
\* the user who confirmed
C10_Reached ==
    \E u \in Users :
        /\ update = [user |-> u, kind |-> "callback", text |-> <<>>, data |-> "confirm_yes"]
        /\ session[u].state = "END"
        /\ session[u].reply = "saved"
        /\ Len(db.entries) = 1
        /\ db.entries[1].user_id = u

\* C11: at the confirmation prompt, confirm_stay with a successful add_inventory_entry
\* appends exactly one entry built from the draft, leaves in user_data the room it
\* held before and nothing else (material, color, total, broken and condition are
\* gone) and returns to SELECT_MATERIAL; the add succeeds whenever the material exists.
C11_Stay ==
    [][\A u \in Users :
           (/\ session[u].state = "CONFIRM_ENTRY"
            /\ CallbackFrom(u)
            /\ update'.data = "confirm_stay"
            /\ Get(session[u].data, "selected_material") \in get_materials(db))
               => /\ db'.entries = Append(db.entries, DraftRow(u, session[u].data, db'))
                  /\ session'[u].state = "SELECT_MATERIAL"
                  /\ session'[u].data.selected_room = session[u].data.selected_room
                  /\ \A k \in {"selected_material", "color_id", "total", "broken", "condition"} :
                         ~Has(session'[u].data, k)]_vars

\* a stay was saved: the user is back at the materials with only the room in the draft
C11_Reached ==
    \E u \in Users :
        /\ update = [user |-> u, kind |-> "callback", text |-> <<>>, data |-> "confirm_stay"]
        /\ session[u].state = "SELECT_MATERIAL"
        /\ session[u].reply = "saved_add_another"
        /\ Has(session[u].data, "selected_room")
        /\ ~Has(session[u].data, "total")
        /\ Len(db.entries) = 1

\* C12: at the confirmation prompt, confirm_no empties user_data, ends the
\* conversation and leaves the store as it was: no entry row, no room row.
C12_Cancel ==
    [][\A u \in Users :
           (/\ session[u].state = "CONFIRM_ENTRY"
            /\ CallbackFrom(u)
            /\ update'.data = "confirm_no")
               => /\ session'[u].state = "END"
                  /\ session'[u].data = EmptyData
                  /\ db' = db]_vars

\* a complete draft was cancelled: the conversation ended and the log is empty
C12_Reached ==
    \E u \in Users :
        /\ update = [user |-> u, kind |-> "callback", text |-> <<>>, data |-> "confirm_no"]
        /\ session[u].state = "END"
        /\ session[u].reply = "cancelled"
        /\ session[u].data = EmptyData
        /\ db.entries = <<>>

\* C13: when no material row bears the draft's material at confirm_yes or
\* confirm_stay (an admin removed it meanwhile), add_inventory_entry fails: the store
\* stays as it was (no entry row, no room row), the failure is reported, user_data is
\* emptied and the conversation ends, so the draft cannot be confirmed again.
C13_MaterialGone ==
    [][\A u \in Users :
           (/\ session[u].state = "CONFIRM_ENTRY"
            /\ CallbackFrom(u)
            /\ update'.data \in {"confirm_yes", "confirm_stay"}
            /\ Get(session[u].data, "selected_material") \notin get_materials(db))
               => /\ db' = db
                  /\ session'[u].reply = "error"
                  /\ session'[u].data = EmptyData
                  /\ session'[u].state = "END"]_vars

\* a stay failed after the admin removed both the room and the material of the
\* draft: the conversation ended and the room was not created again
C13_Reached ==
    \E u \in Users :
        /\ update = [user |-> u, kind |-> "callback", text |-> <<>>, data |-> "confirm_stay"]
        /\ session[u].state = "END"
        /\ session[u].reply = "error"
        /\ session[u].data = EmptyData
        /\ get_rooms(db) = {}
        /\ "Tables" \notin get_materials(db)

\* callback_data of the buttons each prompt of a selection state carries, built
\* from the rows the store holds now
RoleKeyboard == {"role_user", "role_admin"}

RoomKeyboard(d) == {Data(Tok("room_", <<n>>)) : n \in get_rooms(d)} \cup {"back_to_start"}

MaterialKeyboard(d) ==
    {Data(Tok("material_", <<n>>)) : n \in get_materials(d)} \cup {"back_to_rooms", "back_to_start"}

ColorKeyboard(d) ==
    {Data(Tok("chaircolor_", StrOfInt(c.id))) : c \in get_chair_colors(d)}
        \cup {"chaircolor_none", "back_to_materials"}

ConditionKeyboard == {Data(Tok("condition_", <<c>>)) : c \in conditions}

ConfirmKeyboard == {"confirm_yes", "confirm_stay", "confirm_no"}

Keyboard(st, d) ==
    CASE st = "SELECT_ROLE" -> RoleKeyboard
      [] st = "SELECT_ROOM" -> RoomKeyboard(d)
      [] st = "SELECT_MATERIAL" -> MaterialKeyboard(d)
      [] st = "SELECT_COLOR" -> ColorKeyboard(d)
      [] st = "SELECT_CONDITION" -> ConditionKeyboard
      [] st = "CONFIRM_ENTRY" -> ConfirmKeyboard
      [] OTHER -> {}

SelectionStates ==
    {"SELECT_ROLE", "SELECT_ROOM", "SELECT_MATERIAL", "SELECT_COLOR", "SELECT_CONDITION",
     "CONFIRM_ENTRY"}

\* C14: in each of the six selection states a callback whose data is not a button
\* of the state's prompt for a row that exists now (a removed room, material or
\* color, or a button of another prompt) leaves the conversation state and
\* user_data as they were.
C14_StaleNoOp ==
    [][\A u \in Users :
           (/\ session[u].state \in SelectionStates
            /\ CallbackFrom(u)
            /\ update'.data \notin Keyboard(session[u].state, db))
               => /\ session'[u].state = session[u].state
                  /\ session'[u].data = session[u].data]_vars

\* the button of a room that was removed meanwhile was pressed in SELECT_ROOM and
\* the conversation went on to the materials with that room in user_data
C14_Reached ==
    \E u \in Users :
        /\ update = [user |-> u, kind |-> "callback", text |-> <<>>,
                     data |-> Data(Tok("room_", <<"LabA">>))]
        /\ "LabA" \notin get_rooms(db)
        /\ session[u].state = "SELECT_MATERIAL"
        /\ session[u].data.selected_room = <<"LabA">>

\* C15: in every reachable state the condition of every persisted entry is one of
\* the configured condition labels, and a step from SELECT_CONDITION into
\* CONFIRM_ENTRY is taken only on the callback data of one of those labels.
C15_ConditionLabels ==
    /\ [](\A i \in DOMAIN db.entries : db.entries[i].condition \in conditions)
    /\ [][\A u \in Users :
              (/\ session[u].state = "SELECT_CONDITION"
               /\ session'[u].state = "CONFIRM_ENTRY")
                  => update'.data \in ConditionKeyboard]_vars

\* an entry was saved whose condition is the data of a room button
C15_Reached ==
    /\ Len(db.entries) = 1
    /\ db.entries[1].condition = Data(Tok("room_", <<"LabA">>))
    /\ update.data = "confirm_yes"

\* the reference tables of the store
Tables == {"rooms", "materials", "colors"}

\* the table an insert or a delete of the store works on
TableOf(op) ==
    CASE op \in {"add_room", "remove_room"} -> "rooms"
      [] op \in {"add_material", "remove_material"} -> "materials"
      [] op \in {"add_chair_color", "delete_chair_color"} -> "colors"

AddOps == {"add_room", "add_material", "add_chair_color"}

RemoveOps == {"remove_room", "remove_material", "delete_chair_color"}

\* the rows a delete is aimed at: by name in rooms and materials, by id in chair_colors
Aimed(d, op, key) ==
    IF op = "delete_chair_color"
    THEN {c \in d.colors : c.id = key}
    ELSE RowsNamed(d[TableOf(op)], key)

\* C16: add_room, add_material and add_chair_color called with a name a row of the
\* table already bears return False and leave the whole store as it was; the same
\* call made again on the resulting store fails again and changes nothing.
C16_DuplicateAdd ==
    [][(/\ call'.op \in AddOps
        /\ call'.args[1] \in Names(db[TableOf(call'.op)]))
           => /\ call'.ret = FALSE
              /\ db' = db
              /\ add_room(db', call'.args[1]) = [db |-> db', ok |-> FALSE]
                    \/ call'.op # "add_room"
              /\ add_material(db', call'.args[1]) = [db |-> db', ok |-> FALSE]
                    \/ call'.op # "add_material"
              /\ add_chair_color(db', call'.args[1]) = [db |-> db', ok |-> FALSE]
                    \/ call'.op # "add_chair_color"]_vars

\* an add was refused for a name that an earlier add, not the seed, had inserted
C16_Reached ==
    /\ call = [op |-> "add_room", args |-> <<"LabB">>, ret |-> FALSE]
    /\ Cardinality(RowsNamed(db.rooms, "LabB")) = 1

\* C17: whatever the order in which add_room, add_material, add_chair_color and
\* add_inventory_entry (which inserts a missing room) are called by the sessions, no
\* two rows of rooms, of materials or of chair_colors bear the same name, and an
\* insert of a name succeeds exactly when no row bears it: of two inserts of the
\* same new name one succeeds and the other fails.
C17_UniqueNames ==
    /\ [](\A t \in Tables : \A r1, r2 \in db[t] : r1.name = r2.name => r1 = r2)
    /\ [][(call'.op \in AddOps)
             => /\ call'.ret = (call'.args[1] \notin Names(db[TableOf(call'.op)]))
                /\ Cardinality(RowsNamed(db'[TableOf(call'.op)], call'.args[1])) = 1]_vars
    /\ [][(call'.op = "add_inventory_entry")
             => Cardinality(RowsNamed(db'.rooms, call'.args[1])) <= 1]_vars

\* the second insert of a new color name was refused and one row bears the name
C17_Reached ==
    /\ call = [op |-> "add_chair_color", args |-> <<"Bleu">>, ret |-> FALSE]
    /\ Cardinality(RowsNamed(db.colors, "Bleu")) = 1

\* C18: remove_room, remove_material and delete_chair_color called with a key no
\* row has return False and leave the whole store as it was; called with a key a
\* row has they return True and take away that row and nothing else.
C18_Remove ==
    [][(call'.op \in RemoveOps)
          => LET t == TableOf(call'.op)
                 aimed == Aimed(db, call'.op, call'.args[1])
             IN  IF aimed = {}
                 THEN call'.ret = FALSE /\ db' = db
                 ELSE /\ call'.ret = TRUE
                      /\ Cardinality(aimed) = 1
                      /\ db' = [db EXCEPT ![t] = @ \ aimed]]_vars

\* a material was removed while the other materials stayed, then removed again in vain
C18_Reached ==
    /\ call = [op |-> "remove_material", args |-> <<"Ghost">>, ret |-> FALSE]
    /\ db.materialSeq = 3
    /\ get_materials(db) = {"Chaises", "Tables"}

\* C19: remove_room, remove_material and delete_chair_color leave the inventory log
\* as it was, row for row, also when an entry refers to the row taken away.
C19_EntriesKept ==
    [][(call'.op \in RemoveOps) => db'.entries = db.entries]_vars

\* a room was removed and the entry recorded for it is still in the log
C19_Reached ==
    /\ call.op = "remove_room"
    /\ call.ret = TRUE
    /\ Len(db.entries) = 1
    /\ db.entries[1].room_id \notin {r.id : r \in db.rooms}

\* the names the admin forms hand to the store
RoomNameOf(text) == Join(Strip(text))

MaterialNameOf(text) ==
    IF \E i \in 1..Len(Strip(text)) : IsEmoji(Strip(text)[i])
    THEN Join(WithoutEmoji(Strip(text))) ELSE Join(Strip(text))

ColorNameOf(text) == Join(Strip(BeforeHash(Strip(text))))

\* the step is a reference-data mutation of admin u that the store refuses: an
\* insert or a rename to a name another row bears, or a delete or a rename of a
\* row that does not exist
MutationFails(u) ==
    LET st == session[u].state
        ud == session[u].data
    IN  \/ /\ TextFrom(u)
           /\ \/ st = "ADD_ROOM" /\ ~add_room(db, RoomNameOf(update'.text)).ok
              \/ st = "ADD_MATERIAL" /\ ~add_material(db, MaterialNameOf(update'.text)).ok
              \/ st = "ADD_COLOR" /\ ~add_chair_color(db, ColorNameOf(update'.text)).ok
              \/ /\ st = "EDIT_COLOR"
                 /\ Has(ud, "edit_color_id")
                 /\ ~update_chair_color(db, Get(ud, "edit_color_id"),
                                        ColorNameOf(update'.text)).ok
        \/ /\ CallbackFrom(u)
           /\ \/ /\ st = "REMOVE_ROOM"
                 /\ \E n \in RoomNames : /\ update'.data = Data(Tok("delroom_", <<n>>))
                                         /\ ~remove_room(db, n).ok
              \/ /\ st = "REMOVE_MATERIAL"
                 /\ \E n \in MaterialNames : /\ update'.data = Data(Tok("delmat_", <<n>>))
                                             /\ ~remove_material(db, n).ok
              \/ /\ st \in {"MANAGE_COLORS", "EDIT_COLOR"}
                 /\ \E i \in ColorIds : /\ update'.data = Data(Tok("delcolor_", StrOfInt(i)))
                                        /\ ~delete_chair_color(db, i).ok

\* C20: when the store refuses an admin's add, edit, remove or delete of a room,
\* material or color because the name exists or the row does not, the refusal is
\* reported to the admin, the rooms, materials and colors are as they were and the
\* session is afterwards in the admin flow, not ended.
C20_FailureReported ==
    [][\A u \in Users :
           MutationFails(u)
               => /\ session'[u].reply \in {"exists", "error"}
                  /\ \A t \in Tables : db'[t] = db[t]
                  /\ session'[u].state \in AdminStates]_vars

\* a color was to be renamed to the name of another color: the text was taken and
\* the session still waits in EDIT_COLOR below the prompt, both colors as they were
C20_Reached ==
    \E u \in Users :
        /\ update.user = u
        /\ update.kind = "text"
        /\ session[u].state = "EDIT_COLOR"
        /\ session[u].reply = "prompt"
        /\ ColorNameOf(update.text) = "Bleu"
        /\ Get(session[u].data, "edit_color_id") = 1
        /\ db.colors = {[id |-> 1, name |-> "Rouge"], [id |-> 2, name |-> "Bleu"]}

\* p hundredths of a percent is 100 * part / whole rounded to two decimals
Rounded2(p, part, whole) ==
    /\ 2 * (p * whole - 10000 * part) <= whole
    /\ 2 * (10000 * part - p * whole) <= whole

\* the sums of a column over the entries of the room rows named room_name
RoomSum(d, room_name, col) ==
    SumOf(SelectSeq(d.entries,
                    LAMBDA e : \E r \in d.rooms : r.name = room_name /\ r.id = e.room_id),
          col)

\* C21: for every log, get_dashboard_stats returns total_items equal to the sum of
\* the totals of all entries, total_broken equal to the sum of their broken counts,
\* broken_percentage equal to 100 * total_broken / total_items rounded to two
\* decimals, and broken_percentage = 0 and good_percentage = 0 when total_items is 0
\* (an empty log, or entries whose totals are all 0).
C21_Dashboard ==
    call.op = "get_dashboard_stats"
        => LET stats == call.ret
               items == SumOf(db.entries, "total_count")
               broken == SumOf(db.entries, "broken_count")
           IN  /\ stats.total_items = items
               /\ stats.total_broken = broken
               /\ items > 0 => Rounded2(stats.broken_percentage, broken, items)
               /\ items = 0 => stats.broken_percentage = 0 /\ stats.good_percentage = 0

\* the dashboard of a log of several entries, 2 broken of 3 in all: 66.67 percent
C21_Reached ==
    /\ call.op = "get_dashboard_stats"
    /\ Len(db.entries) > 1
    /\ call.ret.total_items = 3
    /\ call.ret.total_broken = 2
    /\ call.ret.broken_percentage = 6667

\* the list names rooms of the store, at most five, with their sums, none 0
ProblematicListed(d, pr) ==
    /\ Len(pr) <= TopRooms
    /\ \A i, j \in 1..Len(pr) : pr[i].room_name = pr[j].room_name => i = j
    /\ \A i \in 1..Len(pr) :
           /\ pr[i].room_name \in get_rooms(d)
           /\ pr[i].total = RoomSum(d, pr[i].room_name, "total_count")
           /\ pr[i].broken = RoomSum(d, pr[i].room_name, "broken_count")
           /\ pr[i].total > 0

\* the rooms with a percentage that the list leaves out
LeftOut(d, pr) ==
    {n \in get_rooms(d) : /\ RoomSum(d, n, "total_count") > 0
                          /\ \A i \in 1..Len(pr) : pr[i].room_name # n}

\* C22 as stated: the problematic rooms are at most 5, none with a summed total of
\* 0, in descending order of summed broken / summed total, and every room left out
\* has a ratio not greater than that of any room listed.
C22_ExactOrder ==
    call.op = "get_dashboard_stats"
        => LET pr == call.ret.problematic_rooms
           IN  /\ ProblematicListed(db, pr)
               /\ \A i, j \in 1..Len(pr) :
                      i < j => pr[i].broken * pr[j].total >= pr[j].broken * pr[i].total
               /\ \A n \in LeftOut(db, pr) : \A i \in 1..Len(pr) :
                      RoomSum(db, n, "broken_count") * pr[i].total
                          <= pr[i].broken * RoomSum(db, n, "total_count")

\* C22, amended: the problematic rooms are at most 5, none with a summed total of 0,
\* in descending order of the percentage 100 * summed broken / summed total rounded
\* to two decimals, and every room left out has a rounded percentage not greater
\* than that of any room listed; rooms with equal rounded percentages come in any
\* order.
C22_RoundedOrder ==
    call.op = "get_dashboard_stats"
        => LET pr == call.ret.problematic_rooms
           IN  /\ ProblematicListed(db, pr)
               /\ \A i \in 1..Len(pr) : Rounded2(pr[i].percentage, pr[i].broken, pr[i].total)
               /\ \A i, j \in 1..Len(pr) : i < j => pr[i].percentage >= pr[j].percentage
               /\ \A n \in LeftOut(db, pr) : \A i \in 1..Len(pr) :
                      SqlPercent2(RoomSum(db, n, "broken_count"),
                                  RoomSum(db, n, "total_count")) <= pr[i].percentage

\* six rooms have a percentage and the dashboard lists five of them
C22_Reached ==
    /\ call.op = "get_dashboard_stats"
    /\ Len(call.ret.problematic_rooms) = TopRooms
    /\ LeftOut(db, call.ret.problematic_rooms) # {}

\* C23: get_room_details(room_name) returns None exactly when no room row has the
\* name; otherwise room_total, room_broken and room_good are the sums over exactly
\* the entries that refer to that room, room_broken_pct is 0 when room_total is 0,
\* and the materials come in descending order of their total.
C23_RoomDetail ==
    call.op = "get_room_details"
        => LET room_name == call.args[1]
           IN  /\ call.ret = <<>> <=> room_name \notin get_rooms(db)
               /\ call.ret # <<>>
                     => LET details == call.ret[1]
                        IN  /\ details.room_total = RoomSum(db, room_name, "total_count")
                            /\ details.room_broken = RoomSum(db, room_name, "broken_count")
                            /\ details.room_good = RoomSum(db, room_name, "good_count")
                            /\ details.room_total = 0 => details.room_broken_pct = 0
                            /\ \A i, j \in 1..Len(details.materials) :
                                   i < j => details.materials[i].total
                                                >= details.materials[j].total

\* the details of a room with two materials, the larger one first though recorded
\* last, in a log that holds entries of other rooms too
C23_Reached ==
    /\ call.op = "get_room_details"
    /\ call.args = <<"B">>
    /\ call.ret # <<>>
    /\ Len(call.ret[1].materials) = 2
    /\ call.ret[1].materials[1].material_name = "Chaises"
    /\ call.ret[1].room_total = 200
    /\ Len(db.entries) > 2

\* C24: get_low_stock_items(threshold) returns a (room, material) group exactly when
\* its average broken count divided by its average total, times 100, is above 20
\* or its average total is below the threshold, and returns the groups in descending
\* order of their broken percentage.
C24_LowStock ==
    call.op = "get_low_stock_items"
        => LET threshold == call.args[1]
               items == call.ret.items
           IN  /\ \A g \in StockGroups(db) :
                      (\E i \in 1..Len(items) :
                           items[i].room = g.room /\ items[i].material = g.material)
                          <=> \/ g.total > 0 /\ 100 * g.broken > AlertPercent * g.total
                              \/ g.total < threshold * g.entries
               /\ \A i, j \in 1..Len(items) :
                      i < j => items[i].broken_percentage >= items[j].broken_percentage

\* the alerts were asked for with threshold 10 on a log that holds a group of 5
\* intact items and a group whose totals are 0: the call raised and returned nothing
C24_Reached ==
    /\ call.op = "get_low_stock_items"
    /\ call.args = <<10>>
    /\ call.ret.raised
    /\ \E g \in StockGroups(db) : g.total = 5 /\ g.broken = 0
    /\ \E g \in StockGroups(db) : g.total = 0


\* C25: directly after every successful add_inventory_entry, whatever export_to_csv
\* writes holds a row with the room name, the material name, the total, the broken
\* count, the condition of the call and good = total - broken; and the rows of every
\* export come in descending order of their timestamp.
C25_RoundTrip ==
    /\ [][(call'.op = "add_inventory_entry" /\ call'.ret /\ db' # db)
             => \A rows \in export_to_csv(db') :
                    \E i \in 1..Len(rows) :
                        /\ rows[i].room_name = call'.args[1]
                        /\ rows[i].material_name = call'.args[2]
                        /\ rows[i].total_count = call'.args[3]
                        /\ rows[i].broken_count = call'.args[4]
                        /\ rows[i].good_count = call'.args[3] - call'.args[4]
                        /\ rows[i].condition = call'.args[5]]_vars
    /\ [](call.op = "export_to_csv"
             => \A i, j \in 1..Len(call.ret) :
                    i < j => call.ret[i].timestamp >= call.ret[j].timestamp)

\* two entries recorded in different seconds were exported, the later one, which has
\* a broken item, first
C25_Reached ==
    /\ call.op = "export_to_csv"
    /\ Len(call.ret) = 2
    /\ call.ret[1].timestamp > call.ret[2].timestamp
    /\ call.ret[1].broken_count = 1
    /\ call.ret[1].good_count = 0

\* the entries of the log whose room or material row is gone
Orphans(d) ==
    {i \in 1..Len(d.entries) :
        \/ \A r \in d.rooms : r.id # d.entries[i].room_id
        \/ \A m \in d.materials : m.id # d.entries[i].material_id}

\* C26: an export holds as many rows as the log holds entries, also after a room or
\* a material that entries refer to has been removed.
C26_OrphansExported ==
    call.op = "export_to_csv" => Len(call.ret) = Len(db.entries)

\* an export made after the room of a recorded entry was removed: the log holds the
\* entry, the export holds no row for it
C26_Reached ==
    /\ call.op = "export_to_csv"
    /\ Orphans(db) # {}
    /\ Len(call.ret) = Len(db.entries) - Cardinality(Orphans(db))
    /\ \E i \in Orphans(db) : \A r \in db.rooms : r.id # db.entries[i].room_id


\* C27: no step removes or changes an entry of the log: every entry that is in the
\* log before a step is in it after the step, unchanged and at the same place, and
\* the log never gets shorter.
C27_AppendOnly ==
    [][/\ Len(db'.entries) >= Len(db.entries)
       /\ \A i \in 1..Len(db.entries) : db'.entries[i] = db.entries[i]]_vars

\* the log still holds an entry after the admin removed the material it refers to
C27_Reached ==
    \E i \in Orphans(db) : \A m \in db.materials : m.id # db.entries[i].material_id


\* the keys of user_data that make up the draft of an entry
DraftKeys == {"selected_room", "selected_material", "color_id", "total", "broken", "condition"}

\* C28: whenever the conversation of a user is over, the user_data of that user
\* holds no part of a draft: no selected room, no selected material, no color id,
\* no total, no broken count and no condition.
C28_TerminalDraftEmpty ==
    \A u \in Users :
        session[u].state = "END" => \A key \in DraftKeys : ~Has(session[u].data, key)

\* a user went back from the materials to the rooms after the last room was removed:
\* the conversation is over and user_data still holds the selected room
C28_Reached ==
    \E u \in Users :
        /\ session[u].state = "END"
        /\ session[u].reply = "no_rooms"
        /\ update.user = u
        /\ update.data = "back_to_rooms"
        /\ Has(session[u].data, "selected_room")
        /\ get_rooms(db) = {}


\* the session of user u has passed verify_admin_pin since its /start
IsAdmin(u) == Has(session[u].data, "role") /\ Get(session[u].data, "role") = "admin"

\* C29: no update of a user whose session has not passed the PIN check adds a name
\* to the rooms table.
C29_RoomsByAdminOnly ==
    [][\A u \in Users :
           (update'.user = u /\ ~IsAdmin(u)) => Names(db'.rooms) \subseteq Names(db.rooms)]_vars

\* a user confirmed a draft for the seeded room LabA after the admin had removed it:
\* the entry is in the log and the rooms table holds the name again, under a new id
C29_Reached ==
    \E u \in Users :
        /\ update.user = u
        /\ update.data \in {"confirm_yes", "confirm_stay"}
        /\ db.entries # <<>>
        /\ \E r \in db.rooms :
               /\ r.name = "LabA"
               /\ r.id = db.roomSeq
               /\ r.id # 1
               /\ r.id = db.entries[Len(db.entries)].room_id
               /\ db.entries[Len(db.entries)].user_id = u


\* the states behind the admin menu
AdminSubStates ==
    {"ADD_ROOM", "REMOVE_ROOM", "ADD_MATERIAL", "REMOVE_MATERIAL",
     "MANAGE_COLORS", "ADD_COLOR", "EDIT_COLOR", "ROOM_DETAILS"}

\* the buttons of the admin screens that only lead to another screen
NavigationData ==
    {"back_to_admin", "back_to_start", "back_to_colors", "color_add", "color_edit",
     "color_delete", "admin_room_details"}

\* C30: an update that a session in one of the admin sub-states handles leaves the
\* session at the admin menu when it is the 'back to admin menu' button, and also
\* when it carried out the operation of the sub-state (a typed name, a pressed
\* room, material or color), whether the operation succeeded or failed.
C30_BackToAdminMenu ==
    [][\A u \in Users :
           (/\ session[u].state \in AdminSubStates
            /\ update'.user = u
            /\ \/ update'.data = "back_to_admin"
               \/ update'.kind = "text"
               \/ update'.kind = "callback" /\ update'.data \notin NavigationData)
               => session'[u].state = "ADMIN_MENU"]_vars

\* the admin pressed 'back to admin menu' on the color screen and is still there
C30_Reached ==
    \E u \in Users :
        /\ session[u].state = "MANAGE_COLORS"
        /\ update.user = u
        /\ update.data = "back_to_admin"
        /\ IsAdmin(u)


\* C31: a text sent in EDIT_COLOR whose name part is the name of a color other than
\* the one being edited is answered with a failure message, leaves the colors as
\* they were and moves the session to the admin menu.
C31_DuplicateRename ==
    [][\A u \in Users :
           (/\ session[u].state = "EDIT_COLOR"
            /\ TextFrom(u)
            /\ Has(session[u].data, "edit_color_id")
            /\ \E c \in db.colors : /\ c.id # Get(session[u].data, "edit_color_id")
                                    /\ c.name = ColorNameOf(update'.text)
            /\ \E c \in db.colors : c.id = Get(session[u].data, "edit_color_id"))
               => /\ db'.colors = db.colors
                  /\ session'[u].reply \in {"exists", "error"}
                  /\ session'[u].state = "ADMIN_MENU"]_vars

\* a color was to be given the name another color bears: the handler raised, nothing
\* was answered, the session still waits in EDIT_COLOR with the id of the color and
\* both colors bear the names they had
C31_Reached ==
    \E u \in Users :
        /\ update.user = u
        /\ update.kind = "text"
        /\ session[u].state = "EDIT_COLOR"
        /\ session[u].reply \notin {"exists", "error", "updated"}
        /\ Has(session[u].data, "edit_color_id")
        /\ \E c, e \in db.colors :
               /\ e.id = Get(session[u].data, "edit_color_id")
               /\ c.id # e.id
               /\ c.name = ColorNameOf(update.text)
               /\ e.name # c.name


\* C32: get_low_stock_items(threshold) never fails, and a (room, material) group whose
\* average total is 0 is, for a threshold above 0, among the returned groups with a
\* number as its broken percentage.
C32_LowStockTotal ==
    call.op = "get_low_stock_items"
        => /\ ~call.ret.raised
           /\ \A g \in StockGroups(db) :
                  (g.total = 0 /\ call.args[1] > 0)
                      => \E i \in 1..Len(call.ret.items) :
                             /\ call.ret.items[i].room = g.room
                             /\ call.ret.items[i].material = g.material
                             /\ call.ret.items[i].broken_percentage \in Nat

\* the alerts were asked for with a threshold above 0 on a log in which every entry of
\* some room and material has total 0: the HAVING clause kept the group, the call
\* raised and returned no group
C32_Reached ==
    /\ call.op = "get_low_stock_items"
    /\ call.args[1] > 0
    /\ call.ret.raised
    /\ call.ret.items = <<>>
    /\ \E g \in StockGroups(db) : g.total = 0 /\ g.entries > 0 /\ Alerting(g, call.args[1])


\* C33: in every reachable state, a session in CONFIRM_ENTRY has selected_room,
\* selected_material, total, broken and condition in its user_data with
\* 0 <= broken <= total; a session in ENTER_BROKEN has total; a session in
\* SELECT_MATERIAL, SELECT_COLOR or ENTER_TOTAL has selected_room.
C33_StepOrdering ==
    \A u \in Users :
        LET st == session[u].state
            ud == session[u].data
        IN  /\ st = "CONFIRM_ENTRY"
                => /\ \A key \in {"selected_room", "selected_material", "total",
                                  "broken", "condition"} : Has(ud, key)
                   /\ 0 <= Get(ud, "broken")
                   /\ Get(ud, "broken") <= Get(ud, "total")
            /\ st = "ENTER_BROKEN" => Has(ud, "total")
            /\ st \in {"SELECT_MATERIAL", "SELECT_COLOR", "ENTER_TOTAL"}
                => Has(ud, "selected_room")

\* one user is at the confirmation with 1 broken item of 2, the other has just typed
\* a total and is asked for the broken count
C33_Reached ==
    \E u, v \in Users :
        /\ session[u].state = "CONFIRM_ENTRY"
        /\ Get(session[u].data, "broken") = 1
        /\ Get(session[u].data, "total") = 2
        /\ Has(session[v].data, "total")
        /\ session[v].state = "ENTER_BROKEN"
        /\ update.user = v
        /\ update.kind = "text"


\* the part that does not depend on the rooms: role_admin leads to the PIN prompt,
\* and the back button of the room prompt to the role prompt with an empty user_data
RoleAdminAndBack(u) ==
    /\ (session[u].state = "SELECT_ROLE" /\ CallbackFrom(u) /\ update'.data = "role_admin")
           => session'[u].state = "ADMIN_PIN"
    /\ (session[u].state = "SELECT_ROOM" /\ CallbackFrom(u) /\ update'.data = "back_to_start")
           => /\ session'[u].state = "SELECT_ROLE"
              /\ session'[u].data = EmptyData

\* C34 as stated: at the role prompt role_user leads to the room prompt whatever rooms
\* there are, role_admin to the PIN prompt; the back button of the room prompt leads to
\* the role prompt with an empty user_data.
C34_RoleSelectAnyRooms ==
    [][\A u \in Users :
           /\ (session[u].state = "SELECT_ROLE" /\ CallbackFrom(u) /\ update'.data = "role_user")
                  => session'[u].state = "SELECT_ROOM"
           /\ RoleAdminAndBack(u)]_vars

\* C34: at the role prompt role_user leads to the room prompt when the rooms table
\* holds a room and ends the conversation when it holds none, role_admin leads to the
\* PIN prompt whatever rooms there are; the back button of the room prompt leads to the
\* role prompt with an empty user_data.
C34_RoleSelect ==
    [][\A u \in Users :
           /\ (session[u].state = "SELECT_ROLE" /\ CallbackFrom(u) /\ update'.data = "role_user")
                  => session'[u].state = IF get_rooms(db) = {} THEN "END" ELSE "SELECT_ROOM"
           /\ RoleAdminAndBack(u)]_vars

\* a user chose the user role after the admin had removed the last room: the
\* conversation is over
C34_Reached ==
    \E u \in Users :
        /\ update.user = u
        /\ update.data = "role_user"
        /\ session[u].state = "END"
        /\ session[u].reply = "no_rooms"
        /\ get_rooms(db) = {}


\* C35: /cancel, handled in whatever state the conversation of the user is in, ends
\* the conversation, leaves the user_data of that user empty and leaves the store as
\* it was.
C35_CancelCommand ==
    [][\A u \in Users :
           (update'.user = u /\ update'.kind = "command" /\ update'.data = "cancel")
               => /\ session[u].state # "END"
                  /\ session'[u].state = "END"
                  /\ session'[u].data = EmptyData
                  /\ db' = db]_vars

\* /cancel was handled after an entry had been recorded: the conversation is over,
\* user_data is empty, the entry is in the log
C35_Reached ==
    \E u \in Users :
        /\ update.user = u
        /\ update.kind = "command"
        /\ update.data = "cancel"
        /\ session[u].state = "END"
        /\ session[u].reply = "cancelled"
        /\ session[u].data = EmptyData
        /\ Len(db.entries) = 1


\* C36: when a user confirms (confirm_yes or confirm_stay) a draft whose selected room
\* has no row any more because an admin removed it, and whose selected material still
\* has its row, the confirm succeeds: afterwards a room row bears the name again, under
\* an id above every id given out before, and the entry appended to the log refers to
\* that row.
C36_RoomRecreated ==
    [][\A u \in Users :
           LET ud == session[u].data
           IN  (/\ session[u].state = "CONFIRM_ENTRY"
                /\ CallbackFrom(u)
                /\ update'.data \in {"confirm_yes", "confirm_stay"}
                /\ \A key \in {"selected_room", "selected_material", "total", "broken",
                               "condition"} : Has(ud, key)
                /\ RowsNamed(db.rooms, Get(ud, "selected_room")) = {}
                /\ RowsNamed(db.materials, Get(ud, "selected_material")) # {})
                   => /\ session'[u].reply \in {"saved", "saved_add_another"}
                      /\ Len(db'.entries) = Len(db.entries) + 1
                      /\ \E r \in db'.rooms :
                             /\ r.name = Get(ud, "selected_room")
                             /\ r.id > db.roomSeq
                             /\ \A old \in db.rooms : old.id # r.id
                             /\ db'.entries[Len(db'.entries)].room_id = r.id]_vars

\* the admin removed LabA while the user had it selected, the user then chose to
\* save and stay: LabA is back under id 2, the entry refers to id 2 and the user is
\* at the materials of LabA
C36_Reached ==
    \E u \in Users :
        /\ update.user = u
        /\ update.data = "confirm_stay"
        /\ session[u].state = "SELECT_MATERIAL"
        /\ session[u].reply = "saved_add_another"
        /\ session[u].data.selected_room = <<"LabA">>
        /\ db.rooms = {[id |-> 2, name |-> "LabA"]}
        /\ Len(db.entries) = 1
        /\ db.entries[1].room_id = 2


\* C37: a color is recorded for chairs only. In every state the user_data of a session
\* holds a color id other than None only while its selected material is Chaises, and
\* every step that appends an entry with a color id other than None appends it for the
\* material row that bears the name Chaises at that moment.
C37_ColorOnlyForChairs ==
    /\ [](\A u \in Users :
              LET ud == session[u].data
              IN  (Has(ud, "color_id") /\ Get(ud, "color_id") # None)
                      => Has(ud, "selected_material") /\ Get(ud, "selected_material") = "Chaises")
    /\ [][(Len(db'.entries) = Len(db.entries) + 1
              /\ db'.entries[Len(db'.entries)].color_id # None)
             => \E m \in db.materials :
                    /\ m.name = "Chaises"
                    /\ m.id = db'.entries[Len(db'.entries)].material_id]_vars

\* an entry for chairs with the color of id 1 was saved with confirm_stay and the user
\* went on to the tables of the same room: the new draft holds no color
C37_Reached ==
    \E u \in Users :
        /\ db.entries # <<>>
        /\ db.entries[1].color_id = 1
        /\ db.entries[1].user_id = u
        /\ session[u].state = "ENTER_TOTAL"
        /\ session[u].data.selected_material = <<"Tables">>
        /\ session[u].data.color_id = <<>>


\* the step is a confirm_yes or confirm_stay that user u sends at the confirmation
\* prompt and that is answered with a success message
ConfirmSaved(u) ==
    /\ session[u].state = "CONFIRM_ENTRY"
    /\ CallbackFrom(u)
    /\ update'.data \in {"confirm_yes", "confirm_stay"}
    /\ session'[u].reply \in {"saved", "saved_add_another"}

\* C38: a step changes the log exactly when it is a confirm_yes or confirm_stay handled
\* in CONFIRM_ENTRY whose add_inventory_entry succeeds, and then it appends exactly one
\* entry, which carries the id of the user who confirmed; every other step leaves the
\* log as it was.
C38_LogGrowsAtConfirm ==
    [][/\ \A u \in Users :
              ConfirmSaved(u)
                  => /\ Len(db'.entries) = Len(db.entries) + 1
                     /\ SubSeq(db'.entries, 1, Len(db.entries)) = db.entries
                     /\ db'.entries[Len(db'.entries)].user_id = u
       /\ (\A u \in Users : ~ConfirmSaved(u)) => db'.entries = db.entries]_vars

\* the admin added a color and left the menu, then recorded an entry as a user with
\* confirm_yes: the log holds that one entry, under the id of the user
C38_Reached ==
    \E u \in Users :
        /\ update.user = u
        /\ update.data = "confirm_yes"
        /\ session[u].reply = "saved"
        /\ Cardinality(db.colors) = 2
        /\ Len(db.entries) = 1
        /\ db.entries[1].user_id = u


\* C39: a room row that a step creates, by add_room or by the get-or-create of
\* add_inventory_entry, has an id that no entry recorded before the step refers to, so
\* the entries get_room_details counts for its name are those the step itself appended:
\* none after add_room, one after the add_inventory_entry that created the row.
C39_IdsNotReused ==
    [][\A r \in db'.rooms \ db.rooms :
           /\ \A i \in 1..Len(db.entries) : db.entries[i].room_id # r.id
           /\ get_room_details(db', r.name, <<>>)[1].total_entries
                  = Len(db'.entries) - Len(db.entries)]_vars

\* LabA was removed after two entries had been recorded for it and added again: the
\* new row has id 2, both entries still refer to id 1, and the details of LabA count
\* no entry
C39_Reached ==
    /\ call.op = "add_room"
    /\ call.args = <<"LabA">>
    /\ call.ret = TRUE
    /\ [id |-> 2, name |-> "LabA"] \in db.rooms
    /\ Len(db.entries) = 2
    /\ \A i \in 1..2 : db.entries[i].room_id = 1
    /\ get_room_details(db, "LabA", <<>>)[1].total_entries = 0


\* C40: in every state the user id of every entry of the log is in the users table,
\* and so is the id of every user whose conversation is under way (start() upserts the
\* user before any other handler can run); and no step takes a row out of the users
\* table.
C40_EntryUsersKnown ==
    /\ [](/\ \A i \in 1..Len(db.entries) : db.entries[i].user_id \in db.users
          /\ \A u \in Users : session[u].state # "END" => u \in db.users)
    /\ [][db.users \subseteq db'.users]_vars

\* user 2 recorded an entry while user 1 had never sent /start: the users table holds
\* user 2 only and the entry carries that id
C40_Reached ==
    /\ db.users = {2}
    /\ Len(db.entries) = 1
    /\ db.entries[1].user_id = 2
    /\ update.user = 2
    /\ update.data \in {"confirm_yes", "confirm_stay"}

====
